---- MODULE Spec2Model ----
(***************************************************************************)
(* A model of the gustav planner: the path-addressed state document, the   *)
(* job/task abstraction, the domain router and the depth-first search of   *)
(* Planner::find_workflow with Planner::try_task.                          *)
(***************************************************************************)
EXTENDS Integers, Sequences, FiniteSets, TLC

\* ------------------------------------------------------------------ bounds

\* Largest counter value of the documents drawn as inputs.
MaxVal == 3

\* The length of the longest list among the documents drawn as inputs.
MaxLen == 2

\* The search depth at which find_workflow gives up (planner.rs:163).
MaxDepth == 256

\* u8::MAX, the default priority of an intent (intent.rs:26).
DefaultPriority == 255

\* ---------------------------------------------------------------- helpers

Reverse(s) == [i \in 1..Len(s) |-> s[Len(s) + 1 - i]]

SeqToSet(s) == {s[i] : i \in 1..Len(s)}

\* The position of x in the sequence s (0 when absent).
IndexOf(s, x) == IF \E i \in 1..Len(s) : s[i] = x
                 THEN CHOOSE i \in 1..Len(s) : s[i] = x
                 ELSE 0

\* -------------------------------------------------- the state document

\* Map keys in the order serde_json's map iterates them (lexicographic).
Keys == <<"one", "two">>

KeySet == SeqToSet(Keys)

EmptyMap == [k \in {} |-> 0]

\* A document is null, a number, a one-level map from keys to numbers or a
\* one-level array of numbers.
Null == [kind |-> "null", n |-> 0, m |-> EmptyMap, a |-> <<>>]

Num(v) == [kind |-> "num", n |-> v, m |-> EmptyMap, a |-> <<>>]

Obj(f) == [kind |-> "obj", n |-> 0, m |-> f, a |-> <<>>]

Arr(s) == [kind |-> "arr", n |-> 0, m |-> EmptyMap, a |-> s]

\* The tokens that parse as an array index, in order from index 0, and the
\* index of a token, -1 for a token that does not parse as one.
Indexes == <<"0", "1", "2", "3", "4", "5">>

Index(token) ==
    IF \E i \in 1..Len(Indexes) : Indexes[i] = token
    THEN (CHOOSE i \in 1..Len(Indexes) : Indexes[i] = token) - 1
    ELSE -1

\* The tokens a map can have as keys, in the order serde_json's map iterates
\* them: the index tokens are keys as any other, and sort before the words.
KeyOrder == Indexes \o Keys

\* A sequence with its element at place i (from 1) taken out, and with v put
\* in before place i.
SeqRemove(s, i) == SubSeq(s, 1, i - 1) \o SubSeq(s, i + 1, Len(s))

SeqInsert(s, i, v) == SubSeq(s, 1, i - 1) \o <<v>> \o SubSeq(s, i, Len(s))

\* Paths are sequences of tokens: <<>> is the root "", <<"one">> is "/one".
Root == <<>>

\* Pointer::resolve: the value at a path, or why there is none. Each token
\* steps into the value reached so far: a key of a map, an index of an array;
\* nothing is reachable through a number or null.
RECURSIVE resolve(_, _)
resolve(doc, path) ==
    IF path = Root THEN [ok |-> TRUE, value |-> doc, err |-> "none"]
    ELSE IF doc.kind = "obj"
    THEN IF Head(path) \in DOMAIN doc.m
         THEN resolve(Num(doc.m[Head(path)]), Tail(path))
         ELSE [ok |-> FALSE, value |-> Null, err |-> "NotFound"]
    ELSE IF doc.kind = "arr"
    THEN IF Index(Head(path)) < 0
         THEN [ok |-> FALSE, value |-> Null, err |-> "FailedToParseIndex"]
         ELSE IF Index(Head(path)) >= Len(doc.a)
         THEN [ok |-> FALSE, value |-> Null, err |-> "OutOfBounds"]
         ELSE resolve(Num(doc.a[Index(Head(path)) + 1]), Tail(path))
    ELSE [ok |-> FALSE, value |-> Null, err |-> "Unreachable"]

\* A map with key k bound to v.
MapPut(f, k, v) == [x \in (DOMAIN f) \cup {k} |-> IF x = k THEN v ELSE f[x]]

\* A map without key k.
MapDel(f, k) == [x \in (DOMAIN f) \ {k} |-> f[x]]

\* Pointer::assign: write a value at a path of a copy of the document.
assign(doc, path, value) ==
    IF path = Root THEN [ok |-> TRUE, doc |-> value]
    ELSE IF Len(path) = 1 /\ doc.kind = "obj" /\ value.kind = "num"
         THEN [ok |-> TRUE, doc |-> Obj(MapPut(doc.m, path[1], value.n))]
    ELSE IF Len(path) = 1 /\ doc.kind = "arr" /\ value.kind = "num"
            /\ Index(path[1]) >= 0 /\ Index(path[1]) <= Len(doc.a)
         THEN IF Index(path[1]) = Len(doc.a)
              THEN [ok |-> TRUE, doc |-> Arr(Append(doc.a, value.n))]
              ELSE [ok |-> TRUE,
                    doc |-> Arr([doc.a EXCEPT ![Index(path[1]) + 1] = value.n])]
         ELSE [ok |-> FALSE, doc |-> doc]

\* Pointer::delete: remove the value at a path; nothing happens when absent.
delete(doc, path) ==
    IF path = Root THEN Null
    ELSE IF Len(path) = 1 /\ doc.kind = "obj" /\ path[1] \in DOMAIN doc.m
         THEN Obj(MapDel(doc.m, path[1]))
    ELSE IF Len(path) = 1 /\ doc.kind = "arr"
            /\ Index(path[1]) >= 0 /\ Index(path[1]) < Len(doc.a)
         THEN Arr(SeqRemove(doc.a, Index(path[1]) + 1))
         ELSE doc

\* One operation of a patch.
PatchOp(op, path, value) == [op |-> op, path |-> path, value |-> value]

\* The keys of a map, in iteration order, that satisfy a test.
RECURSIVE KeysWhere(_, _)
KeysWhere(i, S) ==
    IF i > Len(KeyOrder) THEN <<>>
    ELSE (IF KeyOrder[i] \in S THEN <<KeyOrder[i]>> ELSE <<>>)
             \o KeysWhere(i + 1, S)

\* The indexes from i (from 0) of two arrays, as json_patch::diff visits
\* them: a replace where both have the index and differ, an add where only
\* `after` has it, and a remove where only `before` has it, at the index less
\* the number of removes so far.
RECURSIVE diff_array(_, _, _, _)
diff_array(before, after, i, shift) ==
    IF i >= Len(before) /\ i >= Len(after) THEN <<>>
    ELSE IF i < Len(before) /\ i < Len(after)
    THEN (IF before[i + 1] # after[i + 1]
          THEN <<PatchOp("replace", <<Indexes[i + 1]>>, Num(after[i + 1]))>>
          ELSE <<>>) \o diff_array(before, after, i + 1, shift)
    ELSE IF i < Len(after)
    THEN <<PatchOp("add", <<Indexes[i + 1]>>, Num(after[i + 1]))>>
             \o diff_array(before, after, i + 1, shift)
    ELSE <<PatchOp("remove", <<Indexes[i - shift + 1]>>, Null)>>
             \o diff_array(before, after, i + 1, shift + 1)

\* json_patch::diff: the patch that turns `before` into `after`. For two maps
\* the keys of `after` are visited in order (replace a changed value, add a
\* missing one), then the keys only `before` has are removed. Two arrays are
\* compared index by index.
diff(before, after) ==
    IF before = after THEN <<>>
    ELSE IF before.kind = "obj" /\ after.kind = "obj"
    THEN LET changed == KeysWhere(1, {k \in DOMAIN after.m :
                            k \notin DOMAIN before.m \/ before.m[k] # after.m[k]})
             removed == KeysWhere(1, (DOMAIN before.m) \ (DOMAIN after.m))
         IN  [i \in 1..Len(changed) |->
                 IF changed[i] \in DOMAIN before.m
                 THEN PatchOp("replace", <<changed[i]>>, Num(after.m[changed[i]]))
                 ELSE PatchOp("add", <<changed[i]>>, Num(after.m[changed[i]]))]
             \o [i \in 1..Len(removed) |-> PatchOp("remove", <<removed[i]>>, Null)]
    ELSE IF before.kind = "arr" /\ after.kind = "arr"
    THEN diff_array(before.a, after.a, 0, 0)
    ELSE <<PatchOp("replace", Root, after)>>

\* One operation of json_patch::patch applied to a document.
apply_op(doc, o) ==
    IF o.path = Root
    THEN IF o.op \in {"add", "replace"}
         THEN [ok |-> TRUE, doc |-> o.value]
         ELSE [ok |-> FALSE, doc |-> doc]
    ELSE IF Len(o.path) = 1 /\ doc.kind = "obj"
    THEN LET k == o.path[1] IN
         CASE o.op = "add" ->
                IF o.value.kind = "num"
                THEN [ok |-> TRUE, doc |-> Obj(MapPut(doc.m, k, o.value.n))]
                ELSE [ok |-> FALSE, doc |-> doc]
           [] o.op = "replace" ->
                IF k \in DOMAIN doc.m /\ o.value.kind = "num"
                THEN [ok |-> TRUE, doc |-> Obj(MapPut(doc.m, k, o.value.n))]
                ELSE [ok |-> FALSE, doc |-> doc]
           [] o.op = "remove" ->
                IF k \in DOMAIN doc.m
                THEN [ok |-> TRUE, doc |-> Obj(MapDel(doc.m, k))]
                ELSE [ok |-> FALSE, doc |-> doc]
           [] OTHER -> [ok |-> FALSE, doc |-> doc]
    ELSE IF Len(o.path) = 1 /\ doc.kind = "arr" /\ Index(o.path[1]) >= 0
    THEN LET i == Index(o.path[1]) IN
         CASE o.op = "add" ->
                IF i <= Len(doc.a) /\ o.value.kind = "num"
                THEN [ok |-> TRUE, doc |-> Arr(SeqInsert(doc.a, i + 1, o.value.n))]
                ELSE [ok |-> FALSE, doc |-> doc]
           [] o.op = "replace" ->
                IF i < Len(doc.a) /\ o.value.kind = "num"
                THEN [ok |-> TRUE, doc |-> Arr([doc.a EXCEPT ![i + 1] = o.value.n])]
                ELSE [ok |-> FALSE, doc |-> doc]
           [] o.op = "remove" ->
                IF i < Len(doc.a)
                THEN [ok |-> TRUE, doc |-> Arr(SeqRemove(doc.a, i + 1))]
                ELSE [ok |-> FALSE, doc |-> doc]
           [] OTHER -> [ok |-> FALSE, doc |-> doc]
    ELSE [ok |-> FALSE, doc |-> doc]

\* System::patch: every operation in order; the first failure fails the whole
\* patch and leaves the document as it was.
RECURSIVE patch_from(_, _, _)
patch_from(orig, doc, changes) ==
    IF changes = <<>> THEN [ok |-> TRUE, doc |-> doc]
    ELSE LET r == apply_op(doc, Head(changes)) IN
         IF r.ok THEN patch_from(orig, r.doc, Tail(changes))
         ELSE [ok |-> FALSE, doc |-> orig]

\* A patch of which the first operation only is applied.
patch_first(doc, changes) ==
    IF changes = <<>> THEN [ok |-> TRUE, doc |-> doc]
    ELSE patch_from(doc, doc, <<Head(changes)>>)

patch(doc, changes) == patch_from(doc, doc, changes)

\* ------------------------------------------------------- jobs and tasks

\* The ids of the jobs, in the order Rust compares them as strings.
JobIds == <<"buggy_plus_one", "count", "extend", "flip", "forever", "minus_one",
            "move_counter", "plus_one",
            "plus_one_async_with_effect", "plus_one_async_with_error",
            "plus_one_sys", "plus_three", "plus_two", "plus_two_with_error",
            "plus_two_with_panic", "push", "redirect", "remove_counter">>

JobSet == SeqToSet(JobIds)

\* The jobs built from handlers that return Vec<Task>.
Methods == {"extend", "forever", "move_counter", "plus_three", "plus_two",
            "plus_two_with_error", "plus_two_with_panic", "redirect"}

\* Task::degree
degree(id) == IF id \in Methods THEN "Composite" ELSE "Atomic"

\* The extractors a handler takes, in argument order. remove_counter takes a
\* pointer, flip and count a view, plus_one_sys a view, a target and the whole
\* system, and every other handler a view and a target.
Extractors(id) ==
    CASE id = "remove_counter" -> <<"Pointer">>
      [] id \in {"flip", "count"} -> <<"View">>
      [] id = "plus_one_sys"   -> <<"View", "Target", "System">>
      [] OTHER                 -> <<"View", "Target">>

\* FromSystem::is_scoped of an extractor: every extractor but the one of the
\* whole system is scoped.
Extractor_is_scoped(extractor) == extractor # "System"

\* A handler that is scoped as soon as one of its extractors is.
Handler_is_scoped_any(id) ==
    \E i \in 1..Len(Extractors(id)) : Extractor_is_scoped(Extractors(id)[i])

\* Handler::is_scoped (handler.rs:109-112, 164-167): true && every extractor's
\* is_scoped.
Handler_is_scoped(id) ==
    \A i \in 1..Len(Extractors(id)) : Extractor_is_scoped(Extractors(id)[i])

\* Action::new and Method::new (task/mod.rs:85-108, 183-213) with the builders
\* with_target, with_arg and with_path applied to the fresh context: a task is
\* a job id, its kind, the scoped bit of its handler, and its context.
Task(id, path, args, target) ==
    [id |-> id, kind |-> degree(id), scoped |-> Handler_is_scoped(id),
     path |-> path, args |-> args, target |-> target]

\* Task::is_scoped
is_scoped(t) == t.scoped

\* Task::try_target, Task::with_target: the target of the context replaced.
Task_with_target(t, target) == [t EXCEPT !.target = target]

\* Handler::with_target on a fresh context.
with_target(id, target) == Task(id, Root, <<>>, target)

\* Task::with_arg hands the name and the value to Context::with_arg
\* (task/mod.rs:338-350), which is not among the sources; the args are an
\* ordered list of names and values. A name that the context does not bind
\* yet is added at the end. For a name that it binds already there are two
\* builds: the value of the binding is replaced where it stands, or the new
\* binding is added at the end and the earlier one stays before it. The
\* variable rebind holds which of the two the build has.
VARIABLE rebind

RebindModes == {"replace", "append"}

with_arg(t, k, v) ==
    [t EXCEPT !.args =
        IF rebind = "replace" /\ \E i \in 1..Len(t.args) : t.args[i][1] = k
        THEN [i \in 1..Len(t.args) |->
                 IF t.args[i][1] = k THEN <<k, v>> ELSE t.args[i]]
        ELSE Append(t.args, <<k, v>>)]

\* planner.rs:107-109: every arg of the parent bound on the sub-task, in order.
RECURSIVE with_args(_, _)
with_args(t, args) ==
    IF args = <<>> THEN t
    ELSE with_args(with_arg(t, Head(args)[1], Head(args)[2]), Tail(args))

\* Strings, where the code works on their characters, are sequences of
\* characters; a run of characters without a brace, a star or a slash stands
\* as one character. Words lists the strings of the model that are more than
\* one such run, and chars gives the characters of a string.
Words == {"{counter}", "{*counter}", "{{counter}}", "{other}", "{*other}",
          "{{other}}", "one/two", "}}", "__ESCAPED_counter__"}

chars(w) ==
    CASE w = "" -> <<>>
      [] w = "{counter}" -> <<"{", "counter", "}">>
      [] w = "{*counter}" -> <<"{", "*", "counter", "}">>
      [] w = "{{counter}}" -> <<"{", "{", "counter", "}", "}">>
      [] w = "{other}" -> <<"{", "other", "}">>
      [] w = "{*other}" -> <<"{", "*", "other", "}">>
      [] w = "{{other}}" -> <<"{", "{", "other", "}", "}">>
      [] w = "one/two" -> <<"one", "/", "two">>
      [] w = "}}" -> <<"}", "}">>
      [] w = "__ESCAPED_counter__" -> <<"__ESCAPED_", "counter", "__">>
      [] OTHER -> <<w>>

\* The string of some characters; "?" for a string the model has no word for.
word(cs) ==
    IF cs = <<>> THEN ""
    ELSE IF Len(cs) = 1 THEN cs[1]
    ELSE IF \E w \in Words : chars(w) = cs
    THEN CHOOSE w \in Words : chars(w) = cs
    ELSE "?"

\* String::from(route), as the index keeps it (domain.rs:70): every segment
\* after a slash.
RECURSIVE route_string(_)
route_string(route) ==
    IF route = <<>> THEN <<>>
    ELSE <<"/">> \o chars(Head(route)) \o route_string(Tail(route))

\* The place of the first slash of a string after its first character, or one
\* past its end.
NextSlash(s) ==
    IF \E i \in 2..Len(s) : s[i] = "/"
    THEN CHOOSE i \in 2..Len(s) : s[i] = "/" /\ \A j \in 2..(i - 1) : s[j] # "/"
    ELSE Len(s) + 1

\* The path of a string: the words after each slash.
RECURSIVE Path_from_str(_)
Path_from_str(s) ==
    IF s = <<>> THEN Root
    ELSE <<word(SubSeq(s, 2, NextSlash(s) - 1))>>
             \o Path_from_str(SubSeq(s, NextSlash(s), Len(s)))

\* Task::with_path: the path of a string.
with_path(t, path) == [t EXCEPT !.path = Path_from_str(path)]

\* Pointer::from_system: the parent of the path must resolve; the path itself
\* may be missing (a key a map has not, an index past the end of an array),
\* which gives an absent pointer; a value that is not an i32 fails to
\* deserialize.
Pointer_from_system(system, path) ==
    LET parent == IF path = Root THEN Root ELSE SubSeq(path, 1, Len(path) - 1)
        absent == [ok |-> TRUE, present |-> FALSE, n |-> 0]
        failed == [ok |-> FALSE, present |-> FALSE, n |-> 0]
        pointer(p, r) ==
            IF ~p.ok THEN failed
            ELSE IF r.ok
            THEN IF r.value.kind = "num"
                 THEN [ok |-> TRUE, present |-> TRUE, n |-> r.value.n]
                 ELSE failed
            ELSE IF r.err \in {"NotFound", "OutOfBounds"} THEN absent
            ELSE failed
    IN  pointer(resolve(system, parent), resolve(system, path))

\* A view that takes the pointer as it is, absent or not.
View_from_system_absent(system, path) == Pointer_from_system(system, path)

\* View::from_system: a pointer that must hold a value.
View_from_system(system, path) ==
    LET view(p) == IF p.ok /\ p.present THEN p
                   ELSE [ok |-> FALSE, present |-> FALSE, n |-> 0]
    IN  view(Pointer_from_system(system, path))

\* View::from_system of a View<Vec<i32>>: the value at the path has to be
\* there and to deserialize as a list of numbers.
View_from_system_vec(system, path) ==
    LET view(r) == IF r.ok /\ r.value.kind = "arr"
                   THEN [ok |-> TRUE, list |-> r.value.a]
                   ELSE [ok |-> FALSE, list |-> <<>>]
    IN  view(resolve(system, path))

\* Target::from_system: the context's target deserialized as an i32.
Target_from_system(target) ==
    IF target.kind = "num" THEN [ok |-> TRUE, n |-> target.n]
    ELSE [ok |-> FALSE, n |-> 0]

\* A conversion that writes the whole document after the change in one
\* operation at the root.
Pointer_into_result_whole(system, path, present, n) ==
    LET assigned(a) ==
            IF a.ok
            THEN [ok |-> TRUE, patch |-> <<PatchOp("replace", Root, a.doc)>>,
                  err |-> "none"]
            ELSE [ok |-> FALSE, patch |-> <<>>, err |-> "Unexpected"]
    IN  IF present THEN assigned(assign(system, path, Num(n)))
        ELSE [ok |-> TRUE,
              patch |-> <<PatchOp("replace", Root, delete(system, path))>>,
              err |-> "none"]

\* A pointer whose patch writes what it holds, changed or not: a replace of
\* the value at its path, or a remove of the path.
Pointer_into_result_written(system, path, present, n) ==
    [ok |-> TRUE,
     patch |-> IF present THEN <<PatchOp("replace", path, Num(n))>>
               ELSE <<PatchOp("remove", path, Null)>>,
     err |-> "none"]

\* A pointer whose patch, when it holds nothing, is the remove of its path.
Pointer_into_result_removed(system, path, present, n) ==
    IF present
    THEN [ok |-> assign(system, path, Num(n)).ok,
          patch |-> diff(system, assign(system, path, Num(n)).doc),
          err |-> "none"]
    ELSE [ok |-> TRUE, patch |-> <<PatchOp("remove", path, Null)>>, err |-> "none"]

\* Pointer::into_result: write (or delete) the pointed value on a copy of the
\* system and diff the copy against the system.
Pointer_into_result(system, path, present, n) ==
    LET assigned(a) ==
            IF a.ok THEN [ok |-> TRUE, patch |-> diff(system, a.doc), err |-> "none"]
            ELSE [ok |-> FALSE, patch |-> <<>>, err |-> "Unexpected"]
    IN  IF present THEN assigned(assign(system, path, Num(n)))
        ELSE [ok |-> TRUE, patch |-> diff(system, delete(system, path)),
              err |-> "none"]

\* View::into_result of a View<Vec<i32>>: the list is written at the path of
\* a copy of the system and the copy is diffed against the system.
View_into_result_vec(system, path, list) ==
    LET assigned(a) ==
            IF a.ok THEN [ok |-> TRUE, patch |-> diff(system, a.doc), err |-> "none"]
            ELSE [ok |-> FALSE, patch |-> <<>>, err |-> "Unexpected"]
    IN  assigned(assign(system, path, Arr(list)))

\* The failure of an extractor: the task reports an InputError.
InputError == [ok |-> FALSE, patch |-> <<>>, err |-> "InputError"]

\* The handlers of the actions: the value a handler leaves in its view.
\* plus_one, minus_one and buggy_plus_one are the planner's test handlers;
\* plus_one_async_with_effect and plus_one_async_with_error are the task
\* module's, and count as plus_one does.
ActionValue(id, c, t) ==
    CASE id \in {"plus_one", "plus_one_async_with_effect",
                 "plus_one_async_with_error"}
                               -> IF c < t THEN c + 1 ELSE c
      [] id = "minus_one"      -> IF c > t THEN c - 1 ELSE c
      [] id = "buggy_plus_one" -> IF c < t THEN c - 1 ELSE c
      [] id = "flip"           -> 1 - c
      [] id = "plus_one_sys"   -> IF c < t THEN c + 1 ELSE c
      [] OTHER                 -> c

\* The handlers of the actions on a list, given as inputs: the list a handler
\* leaves in its view. push adds the target at the end of a list that does
\* not hold it; count writes the number of elements after the first into the
\* first.
ActionList(id, list, t) ==
    CASE id = "push"  -> IF \E i \in 1..Len(list) : list[i] = t THEN list
                         ELSE Append(list, t)
      [] id = "count" -> IF list = <<>> THEN list
                         ELSE [list EXCEPT ![1] = Len(list) - 1]
      [] OTHER        -> list

\* The io step a handler attaches to the value it returns: none, a step that
\* returns the value it was given ("same"), or a step that fails ("error").
IoStep(id) ==
    CASE id = "plus_one_async_with_effect" -> "same"
      [] id = "plus_one_async_with_error"  -> "error"
      [] OTHER                             -> "none"

\* Effect::of(value).with_io(io): a projected pointer value, present or
\* unassigned, with its io step.
Effect(present, n, io) ==
    [ok |-> TRUE, present |-> present, n |-> n, io |-> io, err |-> "none",
     vec |-> FALSE, list |-> <<>>]

\* Effect::of(value) for the view of a list.
Effect_of_vec(list) ==
    [ok |-> TRUE, present |-> TRUE, n |-> 0, io |-> "none", err |-> "none",
     vec |-> TRUE, list |-> list]

\* Effect::from_error
Effect_from_error(err) ==
    [ok |-> FALSE, present |-> FALSE, n |-> 0, io |-> "none", err |-> err,
     vec |-> FALSE, list |-> <<>>]

\* System::from_system of plus_one_sys: the whole state deserialized as a
\* struct whose field numbers is a map of numbers. A document here is null, a
\* number or a map of numbers, so the field is missing or is a number.
Sys_from_system(system) == [ok |-> FALSE]

\* Handler::call (handler.rs:94-107): the extractors in argument order, then
\* the handler; the failure of an extractor is the effect's error.
Handler_call(task, system) ==
    LET unassign(p) ==
            IF ~p.ok THEN Effect_from_error("InputError")
            ELSE Effect(FALSE, 0, "none")
        handler(v, t) ==
            IF ~v.ok THEN Effect_from_error("InputError")
            ELSE IF task.id # "flip" /\ ~t.ok THEN Effect_from_error("InputError")
            ELSE IF task.id = "plus_one_sys" /\ ~Sys_from_system(system).ok
            THEN Effect_from_error("InputError")
            ELSE Effect(TRUE, ActionValue(task.id, v.n, t.n), IoStep(task.id))
        list_handler(v, t) ==
            IF ~v.ok THEN Effect_from_error("InputError")
            ELSE IF task.id = "push" /\ ~t.ok THEN Effect_from_error("InputError")
            ELSE Effect_of_vec(ActionList(task.id, v.list, t.n))
    IN  IF task.id = "remove_counter"
        THEN unassign(Pointer_from_system(system, task.path))
        ELSE IF task.id \in {"push", "count"}
        THEN list_handler(View_from_system_vec(system, task.path),
                          Target_from_system(task.target))
        ELSE handler(View_from_system(system, task.path),
                     Target_from_system(task.target))

\* Effect::pure: the projected value, turned into a patch; the io step is not
\* looked at.
pure(effect, system, path) ==
    IF ~effect.ok THEN [ok |-> FALSE, patch |-> <<>>, err |-> effect.err]
    ELSE IF effect.vec THEN View_into_result_vec(system, path, effect.list)
    ELSE Pointer_into_result(system, path, effect.present, effect.n)

\* Effect::run: the projected value, then the io step on it when there is
\* one, and what the io step returns turned into a patch.
Effect_run(effect, system, path) ==
    IF ~effect.ok THEN [ok |-> FALSE, patch |-> <<>>, err |-> effect.err]
    ELSE IF effect.io = "error"
    THEN [ok |-> FALSE, patch |-> <<>>, err |-> "Runtime"]
    ELSE IF effect.vec THEN View_into_result_vec(system, path, effect.list)
    ELSE Pointer_into_result(system, path, effect.present, effect.n)

\* A dry run that runs the effect, io step included.
dry_run_with_io(task, system) ==
    Effect_run(Handler_call(task, system), system, task.path)

\* Action::dry_run (task/mod.rs:95-98, 125-130): the pure part of the effect
\* of the handler.
dry_run(task, system) == pure(Handler_call(task, system), system, task.path)

\* The run closure of Action::new (task/mod.rs:99-102): the handler is called
\* on the system and its effect is put in a future that has not run yet. The
\* effect keeps the clone of the system that into_effect took
\* (task/handler.rs:46), and the patch will be made against that clone.
run_closure(task, system) ==
    [effect |-> Handler_call(task, system), system |-> system]

\* An await that stops at the projection and never runs the io step.
run_await_without_io(future, path) ==
    pure(future.effect, future.system, path)

\* The await of the future in Action::run (task/mod.rs:101, 122): the effect
\* is run, io step included, and what it returns is turned into a patch
\* against the clone of the system that the effect holds.
run_await(future, path) ==
    Effect_run(future.effect, future.system, path)

\* Handler::call of a method (handler.rs:150-162): the extractors, then the
\* handler's list of sub-tasks, or the panic the handler raises.
\* plus_two and plus_three are the planner's test handlers, plus_two_with_error
\* and plus_two_with_panic the task module's; forever always asks for itself
\* and redirect asks for plus_one with the arg counter bound to "two";
\* move_counter asks for remove_counter and then for plus_one; extend asks
\* for push, plus_one and count.
Method_call(task, system) ==
    LET bad == [ok |-> FALSE, tasks |-> <<>>, err |-> "InputError"]
        sub_tasks(tasks) == [ok |-> TRUE, tasks |-> tasks, err |-> "none"]
        handler(v, t, one) ==
            IF task.id = "forever"
            THEN IF ~t.ok THEN bad
                 ELSE sub_tasks(<<with_target("forever", Num(t.n))>>)
            ELSE IF ~v.ok \/ ~t.ok THEN bad
            ELSE CASE task.id = "plus_two" ->
                        sub_tasks(IF t.n - v.n > 1 THEN <<one, one>> ELSE <<>>)
                   [] task.id = "plus_three" ->
                        sub_tasks(IF t.n - v.n > 2
                                  THEN <<with_target("plus_two", Num(t.n)), one>>
                                  ELSE <<>>)
                   [] task.id = "plus_two_with_error" ->
                        IF t.n - v.n > 1 THEN sub_tasks(<<one, one>>)
                        ELSE [ok |-> FALSE, tasks |-> <<>>, err |-> "ConditionFailed"]
                   [] task.id = "plus_two_with_panic" ->
                        IF t.n - v.n > 1
                        THEN [ok |-> FALSE, tasks |-> <<>>, err |-> "panic"]
                        ELSE [ok |-> FALSE, tasks |-> <<>>, err |-> "ConditionFailed"]
                   [] task.id = "move_counter" ->
                        sub_tasks(IF t.n # v.n
                                  THEN <<with_target("remove_counter", Null), one>>
                                  ELSE <<>>)
                   [] task.id = "extend" ->
                        sub_tasks(IF t.n # v.n
                                  THEN <<with_target("push", Num(t.n)), one,
                                         Task("count", Root, <<>>, Null)>>
                                  ELSE <<>>)
                   [] task.id = "redirect" ->
                        sub_tasks(IF t.n > v.n
                                  THEN <<with_arg(one, "counter", "two")>>
                                  ELSE <<>>)
                   [] OTHER -> sub_tasks(<<>>)
    IN  handler(View_from_system(system, task.path),
                Target_from_system(task.target),
                with_target("plus_one", task.target))

\* panic::catch_unwind around the call (task/mod.rs:194-207): a panic of the
\* handler becomes an InputError.
catch_unwind(called) ==
    IF called.err = "panic"
    THEN [ok |-> FALSE, tasks |-> <<>>, err |-> "InputError"]
    ELSE called

\* An expansion that lets the panic of the handler through.
expand_unwinding(task, system) == Method_call(task, system)

\* Method::expand (task/mod.rs:190-208, 223-228)
expand(task, system) == catch_unwind(Method_call(task, system))

\* ------------------------------------------------------------ the domain

\* Operation, in the order its derived Ord gives (intent.rs:5-12).
Operations == <<"Create", "Update", "Delete", "Any", "None">>

\* An intent: a job with the operation it serves and its priority.
Intent(job, operation, priority) ==
    [job |-> job, operation |-> operation, priority |-> priority]

\* The intent constructors create, update, delete, any and none.
create(job) == Intent(job, "Create", DefaultPriority)

update(job) == Intent(job, "Update", DefaultPriority)

delete_(job) == Intent(job, "Delete", DefaultPriority)

any(job) == Intent(job, "Any", DefaultPriority)

none(job) == Intent(job, "None", DefaultPriority)

\* Intent::with_priority
with_priority(intent, priority) == [intent EXCEPT !.priority = priority]

\* The key Intent::cmp compares: degree (composite first), operation,
\* priority, job id.
IntentKey(i) ==
    <<IF degree(i.job) = "Composite" THEN 0 ELSE 1,
      IndexOf(Operations, i.operation), i.priority, IndexOf(JobIds, i.job)>>

\* Lexicographic "less than" on two keys of the same length.
KeyLess(a, b) ==
    \E i \in 1..Len(a) : a[i] < b[i] /\ \A j \in 1..(i - 1) : a[j] = b[j]

\* An order that does not look at the priority.
intent_cmp_less_flat(a, b) ==
    KeyLess(<<IntentKey(a)[1], IntentKey(a)[2], IntentKey(a)[4]>>,
            <<IntentKey(b)[1], IntentKey(b)[2], IntentKey(b)[4]>>)

\* An order in which no intent comes before another.
intent_cmp_less_never(a, b) == FALSE

\* impl Ord for Intent: cmp(a, b) = Less.
intent_cmp_less(a, b) == KeyLess(IntentKey(a), IntentKey(b))

\* BTreeSet::insert: the intent goes to its place in the order; an intent that
\* compares equal to one already there is not inserted.
btree_insert(queue, intent) ==
    IF \E i \in 1..Len(queue) : IntentKey(queue[i]) = IntentKey(intent)
    THEN queue
    ELSE LET before == Cardinality({i \in 1..Len(queue) :
                                        intent_cmp_less(queue[i], intent)})
         IN  SubSeq(queue, 1, before) \o <<intent>>
                 \o SubSeq(queue, before + 1, Len(queue))

\* Path templates, as sequences of segments: "", "/{counter}", "/two" and
\* "/0".
TRoot == <<>>

TCounter == <<"{counter}">>

TTwo == <<"two">>

THead == <<"0">>

\* The segments that are holes, with the name each one binds.
HoleName == [h \in {"{counter}"} |-> "counter"]

IsHole(seg) == seg \in DOMAIN HoleName

\* Domain::new
Domain_new == [router |-> [t \in {} |-> <<>>], index |-> [j \in {} |-> <<>>],
               panicked |-> FALSE]

\* A job call that lets a job on a route a second time.
job_again(dom, route, intent) ==
    LET queue == IF route \in DOMAIN dom.router THEN dom.router[route] ELSE <<>>
        updated == ~\E i \in 1..Len(queue) : IntentKey(queue[i]) = IntentKey(intent)
    IN  IF dom.panicked THEN dom
        ELSE [router |-> [t \in (DOMAIN dom.router) \cup {route} |->
                             IF t = route THEN btree_insert(queue, intent)
                             ELSE dom.router[t]],
              index |-> IF updated
                        THEN [j \in (DOMAIN dom.index) \cup {intent.job} |->
                                 IF j = intent.job THEN route ELSE dom.index[j]]
                        ELSE dom.index,
              panicked |-> updated /\ intent.job \in DOMAIN dom.index]

\* A job call that lets a job on a second route.
job_anywhere(dom, route, intent) ==
    LET queue == IF route \in DOMAIN dom.router THEN dom.router[route] ELSE <<>>
        updated == ~\E i \in 1..Len(queue) : IntentKey(queue[i]) = IntentKey(intent)
    IN  IF dom.panicked THEN dom
        ELSE IF \E i \in 1..Len(queue) : queue[i].job = intent.job
        THEN [dom EXCEPT !.panicked = TRUE]
        ELSE [router |-> [t \in (DOMAIN dom.router) \cup {route} |->
                             IF t = route THEN btree_insert(queue, intent)
                             ELSE dom.router[t]],
              index |-> IF updated
                        THEN [j \in (DOMAIN dom.index) \cup {intent.job} |->
                                 IF j = intent.job THEN route ELSE dom.index[j]]
                        ELSE dom.index,
              panicked |-> FALSE]

\* Domain::job: add an intent to the set of a route and record the route of
\* its job. It panics when the job is already in the route's set, or is already
\* assigned to a route.
job(dom, route, intent) ==
    LET queue == IF route \in DOMAIN dom.router THEN dom.router[route] ELSE <<>>
        updated == ~\E i \in 1..Len(queue) : IntentKey(queue[i]) = IntentKey(intent)
    IN  IF dom.panicked THEN dom
        ELSE IF \E i \in 1..Len(queue) : queue[i].job = intent.job
        THEN [dom EXCEPT !.panicked = TRUE]
        ELSE [router |-> [t \in (DOMAIN dom.router) \cup {route} |->
                             IF t = route THEN btree_insert(queue, intent)
                             ELSE dom.router[t]],
              index |-> IF updated
                        THEN [j \in (DOMAIN dom.index) \cup {intent.job} |->
                                 IF j = intent.job THEN route ELSE dom.index[j]]
                        ELSE dom.index,
              panicked |-> updated /\ intent.job \in DOMAIN dom.index]

\* A domain built by a sequence of job calls, each a pair <<route, intent>>.
RECURSIVE build_from(_, _)
build_from(dom, regs) ==
    IF regs = <<>> THEN dom
    ELSE build_from(job(dom, Head(regs)[1], Head(regs)[2]), Tail(regs))

build(regs) == build_from(Domain_new, regs)

\* Domain::jobs: the job calls of the intents, in order, on one route.
RECURSIVE jobs(_, _, _)
jobs(dom, route, intents) ==
    IF intents = <<>> THEN dom
    ELSE jobs(job(dom, route, Head(intents)), route, Tail(intents))

\* The router's match of a path against a route: the same number of segments,
\* each one equal to the path's token or a hole.
RouteMatches(route, path) ==
    /\ Len(route) = Len(path)
    /\ \A i \in 1..Len(route) : IsHole(route[i]) \/ route[i] = path[i]

\* The args a matched route captures, in segment order.
RECURSIVE Captured(_, _, _)
Captured(route, path, i) ==
    IF i > Len(route) THEN <<>>
    ELSE (IF IsHole(route[i]) THEN <<<<HoleName[route[i]], path[i]>>>> ELSE <<>>)
             \o Captured(route, path, i + 1)

\* A filter that lets every intent through.
WithoutNone_all(queue) == queue

\* The intents of a set whose operation is not None, in set order
\* (domain.rs:191-194).
RECURSIVE WithoutNone(_)
WithoutNone(queue) ==
    IF queue = <<>> THEN <<>>
    ELSE (IF Head(queue).operation # "None" THEN <<Head(queue)>> ELSE <<>>)
             \o WithoutNone(Tail(queue))

\* Domain::find_jobs_at: the args and the intents of the route that matches the
\* path, in set order, without the None intents.
find_jobs_at(dom, path) ==
    LET hits == {r \in DOMAIN dom.router : RouteMatches(r, path)} IN
    IF hits = {} THEN [found |-> FALSE, args |-> <<>>, intents |-> <<>>]
    ELSE LET r == CHOOSE x \in hits :
                      \A y \in hits : Cardinality({i \in 1..Len(x) : IsHole(x[i])})
                                   <= Cardinality({i \in 1..Len(y) : IsHole(y[i])})
         IN  [found |-> TRUE, args |-> Captured(r, path, 1),
              intents |-> WithoutNone(dom.router[r])]

\* str::replace: every match of a string, from the left and without overlap,
\* replaced by another.
RECURSIVE replace(_, _, _)
replace(s, from, to) ==
    IF Len(s) < Len(from) THEN s
    ELSE IF SubSeq(s, 1, Len(from)) = from
    THEN to \o replace(SubSeq(s, Len(from) + 1, Len(s)), from, to)
    ELSE <<Head(s)>> \o replace(Tail(s), from, to)

\* domain.rs:102-104 and 111: the strings made of an arg name.
param(k) == <<"{", k, "}">>

wildcard_param(k) == <<"{", "*", k, "}">>

escaped_param(k) == <<"{", "{", k, "}", "}">>

placeholder(k) == <<"__ESCAPED_", k, "__">>

\* domain.rs:101-113: for each arg in turn, the escaped parameter of its name
\* gives way to a placeholder.
RECURSIVE escape(_, _)
escape(route, args) ==
    IF args = <<>> THEN route
    ELSE escape(replace(route, escaped_param(Head(args)[1]),
                        placeholder(Head(args)[1])),
                Tail(args))

\* domain.rs:107-108 and 116-118: for each arg in turn, its parameter and then
\* its wildcard parameter are replaced by its value.
RECURSIVE replacements(_, _)
replacements(route, args) ==
    IF args = <<>> THEN route
    ELSE replacements(replace(replace(route, param(Head(args)[1]),
                                      chars(Head(args)[2])),
                              wildcard_param(Head(args)[1]),
                              chars(Head(args)[2])),
                      Tail(args))

\* The place of the first closing brace of a string after its first
\* character, or 0.
Closing(s) ==
    IF \E i \in 2..Len(s) : s[i] = "}"
    THEN CHOOSE i \in 2..Len(s) : s[i] = "}" /\ \A j \in 2..(i - 1) : s[j] # "}"
    ELSE 0

\* domain.rs:121-154: the loop over the characters: a doubled brace gives one
\* brace; a single opening brace starts a placeholder, which runs to the
\* next closing brace and is missing an arg when there is one.
RECURSIVE unescape(_, _, _)
unescape(s, final_route, missing_args) ==
    IF s = <<>> THEN [final_route |-> final_route, missing_args |-> missing_args]
    ELSE IF s[1] = "{" /\ Len(s) >= 2 /\ s[2] = "{"
    THEN unescape(SubSeq(s, 3, Len(s)), Append(final_route, "{"), missing_args)
    ELSE IF s[1] = "}" /\ Len(s) >= 2 /\ s[2] = "}"
    THEN unescape(SubSeq(s, 3, Len(s)), Append(final_route, "}"), missing_args)
    ELSE IF s[1] = "{" /\ Closing(s) # 0
    THEN unescape(SubSeq(s, Closing(s) + 1, Len(s)),
                  final_route \o SubSeq(s, 1, Closing(s)),
                  Append(missing_args, SubSeq(s, 1, Closing(s))))
    ELSE IF s[1] = "{"
    THEN unescape(<<>>, final_route \o s, missing_args)
    ELSE unescape(Tail(s), Append(final_route, s[1]), missing_args)

\* domain.rs:165-169: for each arg in turn, the placeholder of its name gives
\* way to its parameter.
RECURSIVE restore(_, _)
restore(final_route, args) ==
    IF args = <<>> THEN final_route
    ELSE restore(replace(final_route, placeholder(Head(args)[1]),
                         param(Head(args)[1])),
                 Tail(args))

\* A reverse lookup that returns the route whatever placeholders are left.
find_path_for_job_lenient(dom, job_id, args) ==
    LET restored(scanned) ==
            [ok |-> TRUE, route |-> restore(scanned.final_route, args)]
    IN  IF job_id \notin DOMAIN dom.index THEN [ok |-> FALSE, route |-> <<>>]
        ELSE restored(unescape(replacements(escape(route_string(dom.index[job_id]),
                                                   args),
                                            args),
                               <<>>, <<>>))

\* Domain::find_path_for_job: the route of the job with the parameters of the
\* args replaced by their values and the doubled braces undone; an error when
\* the job has no route or a placeholder is left.
find_path_for_job(dom, job_id, args) ==
    LET restored(scanned) ==
            IF scanned.missing_args # <<>> THEN [ok |-> FALSE, route |-> <<>>]
            ELSE [ok |-> TRUE, route |-> restore(scanned.final_route, args)]
    IN  IF job_id \notin DOMAIN dom.index THEN [ok |-> FALSE, route |-> <<>>]
        ELSE restored(unescape(replacements(escape(route_string(dom.index[job_id]),
                                                   args),
                                            args),
                               <<>>, <<>>))

\* ----------------------------------------------------------- the planner

\* planner::Error. TaskFailure carries the task error it wraps; StackOverflow
\* stands for a recursion of try_task that never returns.
Error(kind) == [kind |-> kind, source |-> "none"]

TaskFailure(source) == [kind |-> "TaskFailure", source |-> source]

\* The error of a scratch state that its patch does not apply to
\* (planner.rs:123-125).
PatchFailure ==
    [kind |-> "Unexpected", source |-> "failed to patch system state"]

NoError == Error("none")

\* Workflow: the DAG built so far, newest unit first, and the pending patch.
EmptyPlan == [dag |-> <<>>, pending |-> <<>>]

\* Distance::new: the operations that separate a state from the target.
Distance(state, tgt) == diff(state, tgt)

\* Distance::is_empty: the state has reached the target (planner.rs:170).
is_empty(distance) == distance = <<>>

\* Operation::matches: the kind of a distance operation against the operation
\* of an intent.
matches(op, operation) ==
    \/ operation = "Any"
    \/ operation = "Create" /\ op.op = "add"
    \/ operation = "Update" /\ op.op = "replace"
    \/ operation = "Delete" /\ op.op = "remove"

\* WorkUnit::new_id: the identity of an action on a state: the task id, the
\* path, the target and the state at the path, which has to resolve.
new_id(task, state) ==
    LET r == resolve(state, task.path) IN
    [ok |-> r.ok, id |-> <<task.id, task.path, task.target, r.value>>]

\* WorkUnit::new
WorkUnit(id, task) == [id |-> id, task |-> task]

\* A loop check that never finds the unit.
dag_some_never(dag, id) == FALSE

\* Dag::some over the units of the plan: is a unit with this id in it?
dag_some(dag, id) == \E i \in 1..Len(dag) : dag[i].id = id

\* Dag::with_head: the unit becomes the head of the DAG.
with_head(dag, unit) == <<unit>> \o dag

\* Workflow::reverse: the units in the order in which they were added.
reverse(plan) == Reverse(plan.dag)

\* A test that finds progress in every candidate.
no_progress_never(stack_len, changes) == FALSE

\* A test for a candidate that changed nothing that is made at every level.
no_progress_always(stack_len, changes) == changes = <<>>

\* The test of try_task for a candidate that changed nothing: only at the top
\* of the stack (planner.rs:82 and 131).
no_progress(stack_len, changes) == stack_len = 0 /\ changes = <<>>

Failed(err) == [ok |-> FALSE, err |-> err, plan |-> EmptyPlan]

Succeeded(plan) == [ok |-> TRUE, err |-> NoError, plan |-> plan]

\* Planner::try_task. `calls` holds the method calls that are still open; a
\* method call equal to an open one repeats it for ever, since expand and
\* dry_run are functions of the task and the state.
RECURSIVE try_task(_, _, _, _, _, _)
RECURSIVE try_subtasks(_, _, _, _, _, _, _)
try_task(dom, task, cur_state, cur_plan, stack_len, calls) ==
    LET call == <<task, cur_state, cur_plan>>
        \* planner.rs:75-91
        tested(work_id, changes) ==
            IF ~changes.ok THEN Failed(TaskFailure(changes.err))
            ELSE IF no_progress(stack_len, changes.patch)
            THEN Failed(Error("ConditionFailed"))
            ELSE Succeeded([dag |-> with_head(cur_plan.dag,
                                              WorkUnit(work_id.id, task)),
                            pending |-> cur_plan.pending \o changes.patch])
        \* planner.rs:60-72
        action(work_id) ==
            IF ~work_id.ok THEN Failed(Error("Unexpected"))
            ELSE IF dag_some(cur_plan.dag, work_id.id)
            THEN Failed(Error("LoopDetected"))
            ELSE tested(work_id, dry_run(task, cur_state))
        \* planner.rs:129-134
        expanded(res) ==
            IF ~res.ok THEN res
            ELSE IF no_progress(stack_len, res.plan.pending)
            THEN Failed(Error("ConditionFailed"))
            ELSE res
        \* planner.rs:94-127
        method(tasks) ==
            IF ~tasks.ok THEN Failed(TaskFailure(tasks.err))
            ELSE expanded(try_subtasks(dom, task, tasks.tasks, cur_state,
                                       cur_plan, stack_len, calls \cup {call}))
    IN  IF degree(task.id) = "Atomic" THEN action(new_id(task, cur_state))
        ELSE IF call \in calls THEN Failed(Error("StackOverflow"))
        ELSE method(expand(task, cur_state))

\* A loop that goes on from the plan it had before the sub-task, and so
\* forgets the units the sub-task added.
try_subtasks_forgetful(dom, method, tasks, cur_state, cur_plan, stack_len, calls) ==
    LET patched(res, new_state) ==
            IF ~new_state.ok THEN Failed(PatchFailure)
            ELSE try_subtasks(dom, method, Tail(tasks), new_state.doc,
                              IF Tail(tasks) = <<>> THEN res.plan
                              ELSE [res.plan EXCEPT !.dag = cur_plan.dag],
                              stack_len, calls)
        tried(res) ==
            IF ~res.ok THEN res
            ELSE patched(res, patch(cur_state, res.plan.pending))
        routed(t, path) ==
            IF ~path.ok THEN Failed(Error("ExpansionFailed"))
            ELSE tried(try_task(dom, with_path(t, path.route), cur_state,
                                cur_plan, stack_len + 1, calls))
        inherited(t) == routed(t, find_path_for_job(dom, t.id, t.args))
    IN  IF tasks = <<>> THEN Succeeded(cur_plan)
        ELSE inherited(with_args(Head(tasks), method.args))

\* A loop that skips a sub-task that fails and goes on with the next one.
try_subtasks_lenient(dom, method, tasks, cur_state, cur_plan, stack_len, calls) ==
    LET patched(res, new_state) ==
            IF ~new_state.ok THEN Failed(PatchFailure)
            ELSE try_subtasks(dom, method, Tail(tasks), new_state.doc,
                              res.plan, stack_len, calls)
        tried(res) ==
            IF ~res.ok
            THEN try_subtasks(dom, method, Tail(tasks), cur_state, cur_plan,
                              stack_len, calls)
            ELSE patched(res, patch(cur_state, res.plan.pending))
        routed(t, path) ==
            IF ~path.ok THEN Failed(Error("ExpansionFailed"))
            ELSE tried(try_task(dom, with_path(t, path.route), cur_state,
                                cur_plan, stack_len + 1, calls))
        inherited(t) == routed(t, find_path_for_job(dom, t.id, t.args))
    IN  IF tasks = <<>> THEN Succeeded(cur_plan)
        ELSE inherited(with_args(Head(tasks), method.args))

\* The loop of try_task over the sub-tasks of a method (planner.rs:101-127).
try_subtasks(dom, method, tasks, cur_state, cur_plan, stack_len, calls) ==
    LET \* planner.rs:122-126
        patched(res, new_state) ==
            IF ~new_state.ok THEN Failed(PatchFailure)
            ELSE try_subtasks(dom, method, Tail(tasks), new_state.doc,
                              res.plan, stack_len, calls)
        tried(res) ==
            IF ~res.ok THEN res
            ELSE patched(res, patch(cur_state, res.plan.pending))
        \* planner.rs:110-120
        routed(t, path) ==
            IF ~path.ok THEN Failed(Error("ExpansionFailed"))
            ELSE tried(try_task(dom, with_path(t, path.route), cur_state,
                                cur_plan, stack_len + 1, calls))
        \* planner.rs:107-109
        inherited(t) == routed(t, find_path_for_job(dom, t.id, t.args))
    IN  IF tasks = <<>> THEN Succeeded(cur_plan)
        ELSE inherited(with_args(Head(tasks), method.args))

\* A depth test that lets a node of depth MaxDepth through.
depth_exceeded_late(depth) == depth > MaxDepth

\* The depth test of find_workflow (planner.rs:163).
depth_exceeded(depth) == depth >= MaxDepth

\* The filter of find_workflow on the intents of a route (planner.rs:196).
intent_applies(op, intent) ==
    matches(op, intent.operation) \/ intent.operation # "Any"

\* A policy that does not ignore LoopDetected.
is_harmless_strict(err) ==
    \/ err.kind = "TaskFailure" /\ err.source = "ConditionFailed"
    \/ err.kind = "ConditionFailed"
    \/ err.kind = "NotFound"

\* The errors of try_task that find_workflow ignores (planner.rs:225-232).
is_harmless(err) ==
    \/ err.kind = "TaskFailure" /\ err.source = "ConditionFailed"
    \/ err.kind = "LoopDetected"
    \/ err.kind = "ConditionFailed"
    \/ err.kind = "NotFound"

\* ------------------------------------------------ find_workflow, by steps

\* The frame of one call of find_workflow: the search stack, the node being
\* expanded (cur_state, cur_plan, depth), the distance operations and the
\* intents still to visit, the context of the current operation, the result,
\* and a record of the candidate handled by the last step.
NoOp == PatchOp("none", Root, Null)

NoContext == [path |-> Root, args |-> <<>>, target |-> Null]

NoIntent == Intent("none", "None", 0)

NoTry == [tried |-> FALSE, filtered |-> FALSE, op |-> NoOp, intent |-> NoIntent,
          ok |-> FALSE, err |-> NoError, pending |-> <<>>, pushed |-> FALSE]

NoResult == [kind |-> "none", err |-> NoError, workflow |-> <<>>]

Node(state, plan, depth) == [state |-> state, plan |-> plan, depth |-> depth]

\* A push that keeps only the first successor of a node: the nodes of the
\* new node's depth on the stack are the successors its parent has pushed.
push_first_only(stack, node) ==
    IF \E i \in 1..Len(stack) : stack[i].depth = node.depth THEN stack
    ELSE Append(stack, node)

\* A push that leaves the new node at the depth of the node it comes from.
push_shallow(stack, node) ==
    Append(stack, [node EXCEPT !.depth = node.depth - 1])

\* Vec::push on the search stack (planner.rs:223).
push(stack, node) == Append(stack, node)

\* planner.rs:155: the initial state and an empty plan on the stack.
find_workflow_init(system) ==
    [pc |-> "pop", stack |-> <<Node(system, EmptyPlan, 0)>>,
     cur_state |-> Null, cur_plan |-> EmptyPlan, depth |-> 0,
     ops |-> <<>>, op |-> NoOp, context |-> NoContext, intents |-> <<>>,
     result |-> NoResult, last |-> NoTry]

\* find_workflow returns: Ok(workflow) or Err(error).
Return(f, kind, err, workflow) ==
    [f EXCEPT !.pc = "done",
              !.result = [kind |-> kind, err |-> err, workflow |-> workflow],
              !.ops = <<>>, !.intents = <<>>]

\* A pop that returns the plan of the last node when the stack is empty.
pop_step_lenient(f, tgt) ==
    IF f.stack = <<>>
    THEN Return([f EXCEPT !.last = NoTry], "Ok", NoError, reverse(f.cur_plan))
    ELSE LET node == f.stack[Len(f.stack)]
             popped == [f EXCEPT !.stack = SubSeq(f.stack, 1, Len(f.stack) - 1),
                                 !.cur_state = node.state,
                                 !.cur_plan = node.plan,
                                 !.depth = node.depth,
                                 !.last = NoTry]
             distance == Distance(node.state, tgt)
         IN  IF depth_exceeded(node.depth)
             THEN Return(popped, "Err", Error("MaxDepthReached"), <<>>)
             ELSE IF is_empty(distance)
             THEN Return(popped, "Ok", NoError, reverse(node.plan))
             ELSE [popped EXCEPT !.pc = "op", !.ops = distance]

\* A pop that searches from the initial node without looking at its distance.
pop_step_unchecked(f, tgt) ==
    IF f.stack = <<>>
    THEN Return([f EXCEPT !.last = NoTry], "Err", Error("NotFound"), <<>>)
    ELSE LET node == f.stack[Len(f.stack)]
             popped == [f EXCEPT !.stack = SubSeq(f.stack, 1, Len(f.stack) - 1),
                                 !.cur_state = node.state,
                                 !.cur_plan = node.plan,
                                 !.depth = node.depth,
                                 !.last = NoTry]
             distance == Distance(node.state, tgt)
         IN  IF depth_exceeded(node.depth)
             THEN Return(popped, "Err", Error("MaxDepthReached"), <<>>)
             ELSE IF is_empty(distance) /\ node.depth > 0
             THEN Return(popped, "Ok", NoError, reverse(node.plan))
             ELSE [popped EXCEPT !.pc = "op", !.ops = distance]

\* A pop that looks at the distance of a node before it looks at its depth,
\* and so returns the plan of a node of any depth that has reached the target.
pop_step_distance_first(f, tgt) ==
    IF f.stack = <<>>
    THEN Return([f EXCEPT !.last = NoTry], "Err", Error("NotFound"), <<>>)
    ELSE LET node == f.stack[Len(f.stack)]
             popped == [f EXCEPT !.stack = SubSeq(f.stack, 1, Len(f.stack) - 1),
                                 !.cur_state = node.state,
                                 !.cur_plan = node.plan,
                                 !.depth = node.depth,
                                 !.last = NoTry]
             distance == Distance(node.state, tgt)
         IN  IF is_empty(distance)
             THEN Return(popped, "Ok", NoError, reverse(node.plan))
             ELSE IF depth_exceeded(node.depth)
             THEN Return(popped, "Err", Error("MaxDepthReached"), <<>>)
             ELSE [popped EXCEPT !.pc = "op", !.ops = distance]

\* planner.rs:159-173 and 243: pop a node; give up when the stack is empty or
\* the node is too deep; return its plan when it has reached the target;
\* otherwise start on its distance operations.
pop_step(f, tgt) ==
    IF f.stack = <<>>
    THEN Return([f EXCEPT !.last = NoTry], "Err", Error("NotFound"), <<>>)
    ELSE LET node == f.stack[Len(f.stack)]
             popped == [f EXCEPT !.stack = SubSeq(f.stack, 1, Len(f.stack) - 1),
                                 !.cur_state = node.state,
                                 !.cur_plan = node.plan,
                                 !.depth = node.depth,
                                 !.last = NoTry]
             distance == Distance(node.state, tgt)
         IN  IF depth_exceeded(node.depth)
             THEN Return(popped, "Err", Error("MaxDepthReached"), <<>>)
             ELSE IF is_empty(distance)
             THEN Return(popped, "Ok", NoError, reverse(node.plan))
             ELSE [popped EXCEPT !.pc = "op", !.ops = distance]

\* planner.rs:175-193: the next distance operation: the jobs at its path and
\* the context for them, whose target is the target document at the path.
op_step(f, dom, tgt) ==
    IF f.ops = <<>> THEN [f EXCEPT !.pc = "pop", !.last = NoTry]
    ELSE LET op == Head(f.ops)
             matching == find_jobs_at(dom, op.path)
             target == resolve(tgt, op.path)
             g == [f EXCEPT !.ops = Tail(f.ops), !.op = op, !.last = NoTry]
         IN  IF ~matching.found THEN g
             ELSE IF ~target.ok THEN Return(g, "Err", Error("Unexpected"), <<>>)
             ELSE IF matching.intents = <<>> THEN g
             ELSE [g EXCEPT !.pc = "intent",
                            !.context = [path |-> op.path, args |-> matching.args,
                                         target |-> target.value],
                            !.intents = matching.intents]

\* A try of the next intent that patches the state of the node being expanded
\* and extends its plan in place instead of working on clones.
intent_step_inplace(f, dom) ==
    LET intent == Head(f.intents)
        rest == Tail(f.intents)
        g == [f EXCEPT !.intents = rest,
                       !.pc = IF rest = <<>> THEN "op" ELSE "intent"]
        task == Task(intent.job, f.context.path, f.context.args, f.context.target)
        try(res) ==
            [tried |-> TRUE, filtered |-> FALSE, op |-> f.op, intent |-> intent,
             ok |-> res.ok, err |-> res.err, pending |-> res.plan.pending,
             pushed |-> FALSE]
        \* planner.rs:212-223
        progressed(res, new_sys) ==
            IF ~new_sys.ok
            THEN Return([f EXCEPT !.last = try(res)], "Panic", NoError, <<>>)
            ELSE [g EXCEPT !.last = [try(res) EXCEPT !.pushed = TRUE],
                           !.cur_state = new_sys.doc,
                           !.cur_plan = [dag |-> res.plan.dag, pending |-> <<>>],
                           !.stack = push(f.stack,
                               Node(new_sys.doc,
                                    [dag |-> res.plan.dag, pending |-> <<>>],
                                    f.depth + 1))]
        \* planner.rs:201-237
        tried(res) ==
            IF res.ok
            THEN IF res.plan.pending = <<>> THEN [g EXCEPT !.last = try(res)]
                 ELSE progressed(res, patch(f.cur_state, res.plan.pending))
            ELSE IF is_harmless(res.err) THEN [g EXCEPT !.last = try(res)]
            ELSE IF res.err.kind = "StackOverflow"
            THEN Return([f EXCEPT !.last = try(res)], "Overflow", NoError, <<>>)
            ELSE Return([f EXCEPT !.last = try(res)], "Err", res.err, <<>>)
    IN  IF ~intent_applies(f.op, intent)
        THEN [g EXCEPT !.last = [NoTry EXCEPT !.filtered = TRUE, !.op = f.op,
                                              !.intent = intent]]
        ELSE tried(try_task(dom, task, f.cur_state, f.cur_plan, 0, {}))

\* planner.rs:194-237: the next intent of the operation: build its task, try
\* it on the node's state and plan, and push a new node when it progresses.
intent_step(f, dom) ==
    LET intent == Head(f.intents)
        rest == Tail(f.intents)
        g == [f EXCEPT !.intents = rest,
                       !.pc = IF rest = <<>> THEN "op" ELSE "intent"]
        task == Task(intent.job, f.context.path, f.context.args, f.context.target)
        try(res) ==
            [tried |-> TRUE, filtered |-> FALSE, op |-> f.op, intent |-> intent,
             ok |-> res.ok, err |-> res.err, pending |-> res.plan.pending,
             pushed |-> FALSE]
        \* planner.rs:212-223
        progressed(res, new_sys) ==
            IF ~new_sys.ok
            THEN Return([f EXCEPT !.last = try(res)], "Panic", NoError, <<>>)
            ELSE [g EXCEPT !.last = [try(res) EXCEPT !.pushed = TRUE],
                           !.stack = push(f.stack,
                               Node(new_sys.doc,
                                    [dag |-> res.plan.dag, pending |-> <<>>],
                                    f.depth + 1))]
        \* planner.rs:201-237
        tried(res) ==
            IF res.ok
            THEN IF res.plan.pending = <<>> THEN [g EXCEPT !.last = try(res)]
                 ELSE progressed(res, patch(f.cur_state, res.plan.pending))
            ELSE IF is_harmless(res.err) THEN [g EXCEPT !.last = try(res)]
            ELSE IF res.err.kind = "StackOverflow"
            THEN Return([f EXCEPT !.last = try(res)], "Overflow", NoError, <<>>)
            ELSE Return([f EXCEPT !.last = try(res)], "Err", res.err, <<>>)
    IN  IF ~intent_applies(f.op, intent)
        THEN [g EXCEPT !.last = [NoTry EXCEPT !.filtered = TRUE, !.op = f.op,
                                              !.intent = intent]]
        ELSE tried(try_task(dom, task, f.cur_state, f.cur_plan, 0, {}))

\* ------------------------------------------------------------ the inputs

\* The states given to find_plan: a number, a map of numbers, or a list of
\* at most MaxLen numbers of ListVals.
Vals == 0..MaxVal

ListVals == {0, 1, 2}

Lists == UNION {[1..n -> ListVals] : n \in 0..MaxLen}

Docs == {Num(v) : v \in Vals}
            \cup UNION {{Obj(f) : f \in [S -> Vals]} : S \in SUBSET KeySet}
            \cup {Arr(s) : s \in Lists}

\* The domains, each as the sequence of its job calls.
Registrations ==
    { <<<<TRoot, update("plus_one")>>, <<TRoot, update("minus_one")>>>>,
      <<<<TRoot, update("buggy_plus_one")>>, <<TRoot, update("minus_one")>>>>,
      <<<<TRoot, update("plus_two")>>, <<TRoot, none("plus_one")>>>>,
      <<<<TCounter, update("minus_one")>>, <<TCounter, update("plus_one")>>>>,
      <<<<TCounter, none("plus_one")>>, <<TCounter, update("plus_two")>>>>,
      <<<<TCounter, none("plus_one")>>, <<TCounter, none("plus_two")>>,
        <<TCounter, update("plus_three")>>>>,
      <<<<TRoot, create("plus_one")>>, <<TRoot, delete_("minus_one")>>>>,
      <<<<TCounter, delete_("remove_counter")>>, <<TCounter, update("plus_one")>>>>,
      <<<<TRoot, update("forever")>>, <<TRoot, update("plus_one")>>>>,
      <<<<TRoot, update("plus_three")>>, <<TRoot, update("plus_one")>>>>,
      <<<<TRoot, update("flip")>>>>,
      <<>>,
      <<<<TRoot, update("plus_one_async_with_error")>>>>,
      <<<<TCounter, none("plus_one")>>, <<TCounter, update("redirect")>>>>,
      <<<<TRoot, update("plus_one")>>, <<TRoot, update("buggy_plus_one")>>>>,
      <<<<TRoot, update("plus_two_with_error")>>, <<TRoot, update("plus_one")>>>>,
      <<<<TCounter, none("remove_counter")>>, <<TTwo, none("plus_one")>>,
        <<TCounter, update("move_counter")>>>>,
      <<<<TTwo, none("plus_one")>>, <<TCounter, update("plus_two")>>,
        <<TCounter, update("plus_one_async_with_effect")>>>> }

\* ------------------------------------------------------ the specification

\* The same job calls in every order.
Orders(calls) ==
    {[i \in 1..Len(calls) |-> calls[p[i]]] :
        p \in {q \in [1..Len(calls) -> 1..Len(calls)] :
                  \A i, j \in 1..Len(calls) : q[i] = q[j] => i = j}}

\* system, tgt: the current state and the target given to find_plan.
\* regs, domain: the job calls that built the planner's domain, and the domain.
\* fw: the frame of the call of find_workflow.
\* regs2, domain2, fw2: a second planner, built by the same job calls in some
\* order, and the frame of its call of find_workflow on the same states.
\* lookup: the last call of find_jobs_at or find_path_for_job made on the
\* domain from outside the planner, with what it returned.
VARIABLES system, tgt, regs, domain, fw, regs2, domain2, fw2, lookup

vars == <<system, tgt, regs, domain, fw, regs2, domain2, fw2, lookup, rebind>>

inputs == <<system, tgt, regs, domain, regs2, domain2, lookup, rebind>>

NoLookup == [fn |-> "none"]

\* Planner::new and find_plan: a domain, a current state and a target.
Init ==
    /\ system \in Docs
    /\ tgt \in Docs
    /\ regs \in Registrations
    /\ domain = build(regs)
    /\ fw = find_workflow_init(system)
    /\ regs2 = regs
    /\ domain2 = domain
    /\ fw2 = find_workflow_init(system)
    /\ lookup = NoLookup
    /\ rebind \in RebindModes

Pop ==
    /\ fw.pc = "pop"
    /\ fw' = pop_step(fw, tgt)
    /\ UNCHANGED <<inputs, fw2>>

NextOp ==
    /\ fw.pc = "op"
    /\ fw' = op_step(fw, domain, tgt)
    /\ UNCHANGED <<inputs, fw2>>

TryIntent ==
    /\ fw.pc = "intent"
    /\ fw' = intent_step(fw, domain)
    /\ UNCHANGED <<inputs, fw2>>

Next == Pop \/ NextOp \/ TryIntent

Spec == Init /\ [][Next]_vars

\* Two planners on the same states, the second built in any order of the job
\* calls; the second call of find_plan starts when the first has returned.
InitDet ==
    /\ system \in Docs
    /\ tgt \in Docs
    /\ regs \in Registrations
    /\ domain = build(regs)
    /\ fw = find_workflow_init(system)
    /\ regs2 \in Orders(regs)
    /\ domain2 = build(regs2)
    /\ fw2 = find_workflow_init(system)
    /\ lookup = NoLookup
    /\ rebind \in RebindModes

Pop2 ==
    /\ fw.pc = "done"
    /\ fw2.pc = "pop"
    /\ fw2' = pop_step(fw2, tgt)
    /\ UNCHANGED <<inputs, fw>>

NextOp2 ==
    /\ fw.pc = "done"
    /\ fw2.pc = "op"
    /\ fw2' = op_step(fw2, domain2, tgt)
    /\ UNCHANGED <<inputs, fw>>

TryIntent2 ==
    /\ fw.pc = "done"
    /\ fw2.pc = "intent"
    /\ fw2' = intent_step(fw2, domain2)
    /\ UNCHANGED <<inputs, fw>>

NextDet == Pop \/ NextOp \/ TryIntent \/ Pop2 \/ NextOp2 \/ TryIntent2

SpecDet == InitDet /\ [][NextDet]_vars

\* The planner on inputs that take the search down to depth MaxDepth. In the
\* first family one counter can be moved away from its target for ever, by
\* buggy_plus_one, while the other is brought to its target by the method
\* plus_two: the states and targets are maps of the two counters, the second
\* at 0 in the state and at 2 in the target. In the second family plus_one
\* brings both counters to their targets, one step for each level of the
\* search: the second counter in one step, which is searched first and
\* leaves the node of the other candidate on the stack, and the first counter
\* in MaxDepth - 1 steps from 0, so that the node of depth MaxDepth holds the
\* target, and in MaxDepth - 2 steps from 1.
DepthRegs ==
    <<<<TCounter, update("buggy_plus_one")>>, <<TTwo, none("plus_one")>>,
      <<TTwo, update("plus_two")>>>>

DepthDocs(two) == {Obj([k \in KeySet |-> IF k = "two" THEN two ELSE v]) : v \in Vals}

ClimbRegs == <<<<TCounter, update("plus_one")>>>>

ClimbDocs == {Obj([k \in KeySet |-> IF k = "two" THEN 0 ELSE v]) : v \in {0, 1}}

ClimbTarget == Obj([k \in KeySet |-> IF k = "two" THEN 1 ELSE MaxDepth - 1])

InitDepth ==
    /\ \/ /\ system \in DepthDocs(0)
          /\ tgt \in DepthDocs(2)
          /\ regs = DepthRegs
       \/ /\ system \in ClimbDocs
          /\ tgt = ClimbTarget
          /\ regs = ClimbRegs
    /\ domain = build(regs)
    /\ fw = find_workflow_init(system)
    /\ regs2 = regs
    /\ domain2 = domain
    /\ fw2 = find_workflow_init(system)
    /\ lookup = NoLookup
    /\ rebind \in RebindModes

SpecDepth == InitDepth /\ [][Next]_vars

\* The domains of lists: the method extend and the action plus_one serve the
\* first element of the list, and the actions push and count, which work on
\* the whole list, are there for the method to ask for. plus_one is a
\* candidate of its own in the second domain only.
ListRegistrations ==
    { <<<<THead, update("extend")>>, <<THead, none("plus_one")>>,
        <<TRoot, none("push")>>, <<TRoot, none("count")>>>>,
      <<<<THead, update("extend")>>, <<THead, update("plus_one")>>,
        <<TRoot, none("push")>>, <<TRoot, none("count")>>>> }

\* A domain whose only job takes a pointer, which may point at nothing, and
\* serves every operation.
PointerRegistrations == { <<<<TCounter, any("remove_counter")>>>> }

\* The planner on every domain and every document of the model.
InitList ==
    /\ system \in Docs
    /\ tgt \in Docs
    /\ regs \in Registrations \cup ListRegistrations \cup PointerRegistrations
    /\ domain = build(regs)
    /\ fw = find_workflow_init(system)
    /\ regs2 = regs
    /\ domain2 = domain
    /\ fw2 = find_workflow_init(system)
    /\ lookup = NoLookup
    /\ rebind \in RebindModes

SpecList == InitList /\ [][Next]_vars

\* A domain under construction: Domain::new, then job and jobs calls with
\* routes and intents of DomainRoutes and DomainIntents, at most MaxCalls job
\* calls in all, and calls of find_jobs_at on the domain built so far. A call
\* that panics ends the program.
MaxCalls == 3

DomainRoutes == {TRoot, TCounter}

DomainIntents ==
    { update("plus_one"), with_priority(update("plus_one"), 1),
      any("plus_one"),
      update("minus_one"), create("minus_one"), delete_("minus_one"),
      update("plus_two"), none("plus_two"),
      with_priority(create("plus_two"), 1) }

DomainPaths == {Root, <<"one">>, <<"one", "two">>}

InitDomain ==
    /\ system = Null
    /\ tgt = Null
    /\ regs = <<>>
    /\ domain = Domain_new
    /\ fw = find_workflow_init(Null)
    /\ regs2 = <<>>
    /\ domain2 = Domain_new
    /\ fw2 = find_workflow_init(Null)
    /\ lookup = NoLookup
    /\ rebind \in RebindModes

\* Domain::job
JobCall ==
    /\ ~domain.panicked
    /\ Len(regs) < MaxCalls
    /\ \E route \in DomainRoutes, intent \in DomainIntents :
           /\ regs' = Append(regs, <<route, intent>>)
           /\ domain' = job(domain, route, intent)
    /\ lookup' = NoLookup
    /\ UNCHANGED <<system, tgt, fw, regs2, domain2, fw2, rebind>>

\* Domain::jobs with two intents
JobsCall ==
    /\ ~domain.panicked
    /\ Len(regs) + 2 <= MaxCalls
    /\ \E route \in DomainRoutes, first \in DomainIntents, second \in DomainIntents :
           /\ regs' = regs \o <<<<route, first>>, <<route, second>>>>
           /\ domain' = jobs(domain, route, <<first, second>>)
    /\ lookup' = NoLookup
    /\ UNCHANGED <<system, tgt, fw, regs2, domain2, fw2, rebind>>

\* Domain::find_jobs_at
FindJobsAt ==
    /\ ~domain.panicked
    /\ \E path \in DomainPaths :
           lookup' = [fn |-> "find_jobs_at", path |-> path,
                      result |-> find_jobs_at(domain, path)]
    /\ UNCHANGED <<system, tgt, regs, domain, fw, regs2, domain2, fw2, rebind>>

NextDomain == JobCall \/ JobsCall \/ FindJobsAt

SpecDomain == InitDomain /\ [][NextDomain]_vars

\* A domain of one job, plus_one, on a route of PathTemplates, and calls of
\* find_path_for_job on it, for plus_one and for a job that is not in the
\* domain, with args that bind names of PathNames, each at most once, to
\* values of PathValues.
PathTemplates ==
    { <<"one">>,
      <<"{counter}">>,
      <<"one", "{counter}">>,
      <<"{*counter}">>,
      <<"{{counter}}">>,
      <<"{counter}", "{{counter}}">>,
      <<"{counter}", "{other}">>,
      <<"{counter}", "{{other}}", "{*other}">> }

PathNames == {"counter", "other"}

PathValues == {"one", "two", "one/two", "{other}", "}}", "__ESCAPED_counter__"}

PathArgs ==
    {<<>>}
    \cup {<<<<k, v>>>> : k \in PathNames, v \in PathValues}
    \cup {<<<<k[1], v[1]>>, <<k[2], v[2]>>>> :
              k \in {n \in PathNames \X PathNames : n[1] # n[2]},
              v \in PathValues \X PathValues}

InitPath ==
    /\ system = Null
    /\ tgt = Null
    /\ regs \in {<<<<route, update("plus_one")>>>> : route \in PathTemplates}
    /\ domain = build(regs)
    /\ fw = find_workflow_init(Null)
    /\ regs2 = regs
    /\ domain2 = domain
    /\ fw2 = find_workflow_init(Null)
    /\ lookup = NoLookup
    /\ rebind \in RebindModes

\* Domain::find_path_for_job
FindPathForJob ==
    /\ \E job_id \in {"plus_one", "minus_one"}, args \in PathArgs :
           lookup' = [fn |-> "find_path_for_job", job |-> job_id, args |-> args,
                      result |-> find_path_for_job(domain, job_id, args)]
    /\ UNCHANGED <<system, tgt, regs, domain, fw, regs2, domain2, fw2, rebind>>

NextPath == FindPathForJob

SpecPath == InitPath /\ [][NextPath]_vars

\* A state, a target, and calls of dry_run, run and expand on the tasks that
\* the actions of TaskActions and the methods of TaskMethods make at the paths
\* of TaskPaths with that target.
TaskActions == {"plus_one", "plus_one_async_with_effect",
                "plus_one_async_with_error", "minus_one", "remove_counter"}

TaskMethods == {"plus_two", "plus_two_with_error", "plus_two_with_panic"}

TaskJobs == TaskActions \cup TaskMethods \cup {"plus_one_sys"}

TaskPaths == {Root} \cup {<<k>> : k \in KeySet}

TaskTargets == {Null} \cup {Num(v) : v \in Vals}

TaskValues == {"one", "one/two"}

InitTask ==
    /\ system \in Docs
    /\ tgt \in Docs
    /\ regs = <<>>
    /\ domain = Domain_new
    /\ fw = find_workflow_init(Null)
    /\ regs2 = <<>>
    /\ domain2 = Domain_new
    /\ fw2 = find_workflow_init(Null)
    /\ lookup = NoLookup
    /\ rebind \in RebindModes

\* Action::dry_run
DryRun ==
    /\ lookup = NoLookup
    /\ \E id \in TaskActions, path \in TaskPaths :
           lookup' = [fn |-> "dry_run", task |-> Task(id, path, <<>>, tgt),
                      result |-> dry_run(Task(id, path, <<>>, tgt), system)]
    /\ UNCHANGED <<system, tgt, regs, domain, fw, regs2, domain2, fw2, rebind>>

\* The result of a run whose future has not finished.
Pending == [ok |-> FALSE, patch |-> <<>>, err |-> "pending"]

\* No other task has run while the future was suspended.
NoOther == [fn |-> "none"]

\* Action::run, first step (task/mod.rs:120-122, 99-102): the run closure
\* calls the handler on the system and returns the future.
RunCall ==
    /\ lookup = NoLookup
    /\ \E id \in TaskActions, path \in TaskPaths :
           lookup' = [fn |-> "run_call", task |-> Task(id, path, <<>>, tgt),
                      future |-> run_closure(Task(id, path, <<>>, tgt), system),
                      during |-> NoOther, result |-> Pending]
    /\ UNCHANGED <<system, tgt, regs, domain, fw, regs2, domain2, fw2, rebind>>

\* The io step of the future sleeps (task/mod.rs:438, 452): the task is
\* suspended and another task of the runtime runs, here a dry run of a task
\* on the same system. Action::run holds the system by a shared reference
\* until its future ends, so the other task reads the system and cannot
\* change it.
RunSuspended ==
    /\ lookup.fn = "run_call"
    /\ lookup.future.effect.ok
    /\ lookup.future.effect.io # "none"
    /\ lookup.during = NoOther
    /\ \E id \in {"plus_one", "remove_counter"}, path \in TaskPaths :
           lookup' = [lookup EXCEPT
                         !.during = [fn |-> "dry_run",
                                     task |-> Task(id, path, <<>>, tgt),
                                     result |-> dry_run(Task(id, path, <<>>, tgt),
                                                        system)]]
    /\ UNCHANGED <<system, tgt, regs, domain, fw, regs2, domain2, fw2, rebind>>

\* Action::run, last step (task/mod.rs:101, 122): the future ends, with the
\* patch made against the clone of the system taken at the first step, or
\* with the error of the projection or of the io step.
RunAwait ==
    /\ lookup.fn = "run_call"
    /\ lookup' = [lookup EXCEPT
                     !.fn = "run",
                     !.result = run_await(lookup.future, lookup.task.path)]
    /\ UNCHANGED <<system, tgt, regs, domain, fw, regs2, domain2, fw2, rebind>>

\* Method::expand
Expand ==
    /\ lookup = NoLookup
    /\ \E id \in TaskMethods, path \in TaskPaths :
           lookup' = [fn |-> "expand", task |-> Task(id, path, <<>>, tgt),
                      result |-> expand(Task(id, path, <<>>, tgt), system)]
    /\ UNCHANGED <<system, tgt, regs, domain, fw, regs2, domain2, fw2, rebind>>

\* Task::with_target, Task::with_arg and Task::with_path on a task built
\* from a handler.
Build ==
    /\ lookup = NoLookup
    /\ \E id \in TaskJobs, path \in TaskPaths, target \in TaskTargets :
           \/ lookup' = [fn |-> "with_target",
                         task |-> Task(id, path, <<>>, tgt),
                         result |-> Task_with_target(Task(id, path, <<>>, tgt),
                                                     target)]
           \/ \E k \in PathNames, v \in TaskValues :
                  lookup' = [fn |-> "with_arg",
                             task |-> Task(id, path, <<>>, tgt),
                             result |-> with_arg(Task(id, path, <<>>, tgt), k, v)]
           \/ \E to \in TaskPaths :
                  lookup' = [fn |-> "with_path",
                             task |-> Task(id, path, <<>>, tgt),
                             result |-> with_path(Task(id, path, <<>>, tgt),
                                                  route_string(to))]
    /\ UNCHANGED <<system, tgt, regs, domain, fw, regs2, domain2, fw2, rebind>>

NextTask == DryRun \/ RunCall \/ RunSuspended \/ RunAwait \/ Expand \/ Build

SpecTask == InitTask /\ [][NextTask]_vars

\* A state, and one call of Pointer::from_system and View::from_system at a
\* path, of into_result on the pointer or view of a path, or of diff and patch
\* towards another document. The arrays have at most MaxArr elements.
MaxArr == 3

Arrays == UNION {[1..n -> 1..MaxArr] : n \in 0..MaxArr}

ViewDocs == Docs \cup {Arr(s) : s \in Arrays}

ViewPaths ==
    {Root} \cup {<<k>> : k \in KeySet}
           \cup {<<Indexes[i]>> : i \in 1..(MaxArr + 1)}
           \cup {<<"one", "two">>, <<"0", "1">>}

InitView ==
    /\ system \in ViewDocs
    /\ tgt = Null
    /\ regs = <<>>
    /\ domain = Domain_new
    /\ fw = find_workflow_init(Null)
    /\ regs2 = <<>>
    /\ domain2 = Domain_new
    /\ fw2 = find_workflow_init(Null)
    /\ lookup = NoLookup
    /\ rebind \in RebindModes

\* Pointer::from_system and View::from_system
FromSystem ==
    /\ lookup = NoLookup
    /\ \E path \in ViewPaths :
           lookup' = [fn |-> "from_system", path |-> path,
                      pointer |-> Pointer_from_system(system, path),
                      view |-> View_from_system(system, path)]
    /\ UNCHANGED <<system, tgt, regs, domain, fw, regs2, domain2, fw2, rebind>>

\* Pointer::into_result, and View::into_result which hands over to it: of a
\* pointer left as it was built, of one a value was assigned to, and of one
\* that was unassigned; a view is never absent.
IntoResult ==
    /\ lookup = NoLookup
    /\ \E path \in ViewPaths :
           \/ /\ Pointer_from_system(system, path).ok
              /\ lookup' =
                     [fn |-> "into_result", extractor |-> "Pointer",
                      path |-> path, op |-> "none", n |-> 0,
                      result |-> Pointer_into_result(system, path,
                                     Pointer_from_system(system, path).present,
                                     Pointer_from_system(system, path).n)]
           \/ /\ View_from_system(system, path).ok
              /\ lookup' =
                     [fn |-> "into_result", extractor |-> "View",
                      path |-> path, op |-> "none", n |-> 0,
                      result |-> Pointer_into_result(system, path, TRUE,
                                     View_from_system(system, path).n)]
           \/ /\ Pointer_from_system(system, path).ok
              /\ \E v \in Vals :
                     lookup' =
                         [fn |-> "into_result", extractor |-> "Pointer",
                          path |-> path, op |-> "assign", n |-> v,
                          result |-> Pointer_into_result(system, path, TRUE, v)]
           \/ /\ Pointer_from_system(system, path).ok
              /\ lookup' =
                     [fn |-> "into_result", extractor |-> "Pointer",
                      path |-> path, op |-> "unassign", n |-> 0,
                      result |-> Pointer_into_result(system, path, FALSE, 0)]
    /\ UNCHANGED <<system, tgt, regs, domain, fw, regs2, domain2, fw2, rebind>>

\* json_patch::diff towards another document, and System::patch of the
\* result on the state.
Diff ==
    /\ lookup = NoLookup
    /\ \E after \in ViewDocs :
           lookup' = [fn |-> "diff", after |-> after,
                      changes |-> diff(system, after),
                      result |-> patch(system, diff(system, after))]
    /\ UNCHANGED <<system, tgt, regs, domain, fw, regs2, domain2, fw2, rebind>>

NextView == FromSystem \/ IntoResult \/ Diff

SpecView == InitView /\ [][NextView]_vars

\* A domain of two jobs on one route of RoundTemplates, a call of
\* find_jobs_at on a path whose tokens are keys a state document can have,
\* and then a call of find_path_for_job for a job of the domain with the args
\* that find_jobs_at returned, as try_task makes it for a sub-task that was
\* given the args of its method (planner.rs:107-116).
RoundTemplates ==
    {TRoot, TCounter, TTwo, <<"one", "{counter}">>, <<"{counter}", "two">>}

RoundTokens == {"one", "two", "{other}", "}}", "__ESCAPED_counter__"}

RoundPaths ==
    {Root} \cup {<<a>> : a \in RoundTokens}
           \cup {<<a, b>> : a \in RoundTokens, b \in RoundTokens}

InitRound ==
    /\ system = Null
    /\ tgt = Null
    /\ regs \in {<<<<route, update("plus_one")>>, <<route, none("plus_two")>>>> :
                    route \in RoundTemplates}
    /\ domain = build(regs)
    /\ fw = find_workflow_init(Null)
    /\ regs2 = regs
    /\ domain2 = domain
    /\ fw2 = find_workflow_init(Null)
    /\ lookup = NoLookup
    /\ rebind \in RebindModes

\* Domain::find_jobs_at
FindArgsAt ==
    /\ lookup = NoLookup
    /\ \E path \in RoundPaths :
           lookup' = [fn |-> "find_jobs_at", path |-> path, job |-> "none",
                      found |-> find_jobs_at(domain, path),
                      result |-> [ok |-> FALSE, route |-> <<>>]]
    /\ UNCHANGED <<system, tgt, regs, domain, fw, regs2, domain2, fw2, rebind>>

\* Domain::find_path_for_job with the args of the match
FindPathBack ==
    /\ lookup.fn = "find_jobs_at"
    /\ lookup.found.found
    /\ \E job_id \in DOMAIN domain.index :
           lookup' = [lookup EXCEPT
                         !.fn = "find_path_for_job",
                         !.job = job_id,
                         !.result = find_path_for_job(domain, job_id,
                                                      lookup.found.args)]
    /\ UNCHANGED <<system, tgt, regs, domain, fw, regs2, domain2, fw2, rebind>>

NextRound == FindArgsAt \/ FindPathBack

SpecRound == InitRound /\ [][NextRound]_vars

\* ------------------------------------------------------------ properties

\* The state that the units of a workflow leave, each one's dry_run patch
\* applied to the state the units before it left.
RECURSIVE apply_workflow(_, _)
apply_workflow(state, units) ==
    LET patched(new_state) ==
            IF ~new_state.ok THEN [ok |-> FALSE, doc |-> state]
            ELSE apply_workflow(new_state.doc, Tail(units))
        changed(changes) ==
            IF ~changes.ok THEN [ok |-> FALSE, doc |-> state]
            ELSE patched(patch(state, changes.patch))
    IN  IF units = <<>> THEN [ok |-> TRUE, doc |-> state]
        ELSE changed(dry_run(Head(units).task, state))

ReachesTarget(final) == final.ok /\ diff(final.doc, tgt) = <<>>

\* C1 (planner soundness): whenever find_workflow returns a workflow, applying
\* the patch that each of its actions produces on the state reached so far,
\* in workflow order, from the current state ends in a state whose distance
\* to the target is empty.
C1_Soundness ==
    fw.result.kind = "Ok" => ReachesTarget(apply_workflow(system, fw.result.workflow))

\* No two units of a sequence of units have the same id.
NoTwoAlike(units) ==
    \A i, j \in 1..Len(units) : units[i].id = units[j].id => i = j

\* The task find_workflow builds for an intent in the frame's context.
CandidateOf(f, intent) ==
    Task(intent.job, f.context.path, f.context.args, f.context.target)

\* C2 (planner loop-freedom): neither the returned workflow nor the plan of
\* any search node holds two units with the same id, and an action tried
\* when its unit id is already in the plan fails with LoopDetected and pushes
\* nothing.
C2_LoopFreedom ==
    /\ NoTwoAlike(fw.result.workflow)
    /\ NoTwoAlike(fw.cur_plan.dag)
    /\ \A i \in 1..Len(fw.stack) : NoTwoAlike(fw.stack[i].plan.dag)
    /\ (/\ fw.last.tried
        /\ degree(fw.last.intent.job) = "Atomic"
        /\ dag_some(fw.cur_plan.dag,
                    new_id(CandidateOf(fw, fw.last.intent), fw.cur_state).id))
           => /\ ~fw.last.ok
              /\ fw.last.err = Error("LoopDetected")
              /\ ~fw.last.pushed

\* An action has been tried whose unit was in the plan already.
C2_Witness ==
    /\ fw.last.tried
    /\ fw.last.err = Error("LoopDetected")
    /\ Len(fw.cur_plan.dag) >= 2

\* C3 (termination): find_workflow returns, with a workflow or with an error,
\* whatever the domain and the states, methods that expand to themselves
\* included: the search never stops in any other way, such as in a call of
\* try_task that does not return.
C3_Termination ==
    /\ fw.pc = "done" => fw.result.kind \in {"Ok", "Err"}
    /\ fw.last.tried => fw.last.err.kind # "StackOverflow"

\* The case of C4: the numbers c < t under the domain of buggy_plus_one and
\* minus_one, where the only action that applies moves away from the target.
C4_Case ==
    /\ regs = <<<<TRoot, update("buggy_plus_one")>>, <<TRoot, update("minus_one")>>>>
    /\ system.kind = "num"
    /\ tgt.kind = "num"
    /\ system.n < tgt.n

\* C4 (depth cap): in that case find_workflow never returns a workflow and
\* never expands a node deeper than the cap; it stops with the error
\* MaxDepthReached, when it pops the node of depth 256.
C4_DepthCap ==
    C4_Case => /\ fw.result.kind # "Ok"
               /\ fw.depth <= MaxDepth
               /\ \A i \in 1..Len(fw.stack) : fw.stack[i].depth <= MaxDepth
               /\ fw.pc = "done" =>
                     /\ fw.result.kind = "Err"
                     /\ fw.result.err = Error("MaxDepthReached")
                     /\ fw.depth = MaxDepth

\* The search of the case has stopped at the cap.
C4_Witness ==
    /\ C4_Case
    /\ fw.pc = "done"
    /\ fw.result.err = Error("MaxDepthReached")
    /\ Len(fw.cur_plan.dag) = MaxDepth

\* Two results are the same: both the same workflow, or both an error of the
\* same kind.
SameResult(r1, r2) ==
    /\ r1.kind = r2.kind
    /\ r1.workflow = r2.workflow
    /\ r1.err.kind = r2.err.kind

\* C5 (determinism): two runs of find_workflow on the same current state and
\* target, under domains built from the same job calls in any order, return
\* the same result.
C5_Determinism ==
    (fw.pc = "done" /\ fw2.pc = "done") => SameResult(fw.result, fw2.result)

\* Both runs have returned the same workflow of two units or more, the second
\* under a domain built in another order.
C5_Witness ==
    /\ fw.pc = "done"
    /\ fw2.pc = "done"
    /\ regs2 # regs
    /\ fw2.result.kind = "Ok"
    /\ Len(fw2.result.workflow) >= 2

\* C6 (operation filter): an intent is tried for a distance operation only
\* when its operation matches the kind of the operation (Create for add,
\* Update for replace, Delete for remove) or is Any.
C6_OperationFilter ==
    fw.last.tried => matches(fw.last.op, fw.last.intent.operation)

\* The case of C7: a map whose target lacks some of its keys and is otherwise
\* the same, under a domain with the intent delete(remove_counter) at the
\* template "/{counter}".
C7_Case ==
    /\ regs = <<<<TCounter, delete_("remove_counter")>>,
                <<TCounter, update("plus_one")>>>>
    /\ system.kind = "obj"
    /\ tgt.kind = "obj"
    /\ DOMAIN tgt.m \subseteq DOMAIN system.m
    /\ DOMAIN tgt.m # DOMAIN system.m
    /\ \A k \in DOMAIN tgt.m : tgt.m[k] = system.m[k]

\* C7 (delete intents are reachable): in that case, where every operation of
\* the distance is a remove at a path the delete intent's template matches,
\* find_workflow does not fail: it returns a workflow that holds the job.
C7_DeleteReachable ==
    (C7_Case /\ fw.pc = "done") =>
        /\ fw.result.kind = "Ok"
        /\ \E i \in 1..Len(fw.result.workflow) :
               fw.result.workflow[i].task.id = "remove_counter"

\* The errors that C8 names as skipped.
Benign(err) ==
    \/ err = Error("ConditionFailed")
    \/ err = Error("LoopDetected")
    \/ err = Error("NotFound")
    \/ err = TaskFailure("ConditionFailed")

\* The step of find_workflow in which try_task has returned an error.
CandidateFails ==
    /\ fw.pc = "intent"
    /\ fw'.last.tried
    /\ ~fw'.last.ok
    /\ fw'.last.err.kind # "StackOverflow"

\* C8 (error propagation policy): a candidate that fails with ConditionFailed,
\* LoopDetected, NotFound or a TaskFailure of ConditionFailed is skipped: the
\* search goes on with the candidates that remain and the stack as it was.
\* A candidate that fails with any other error ends find_workflow at once
\* with that error.
C8_ErrorPolicy ==
    [][CandidateFails =>
          IF Benign(fw'.last.err)
          THEN /\ fw'.pc \in {"op", "intent"}
               /\ fw'.intents = Tail(fw.intents)
               /\ fw'.ops = fw.ops
               /\ fw'.stack = fw.stack
               /\ fw'.result = NoResult
          ELSE /\ fw'.pc = "done"
               /\ fw'.result = [kind |-> "Err", err |-> fw'.last.err,
                                workflow |-> <<>>]
               /\ fw'.stack = fw.stack]_vars

\* find_workflow has ended with the InputError of a task.
C8_Witness ==
    /\ fw.pc = "done"
    /\ fw.last.tried
    /\ fw.last.err = TaskFailure("InputError")
    /\ fw.result.err = TaskFailure("InputError")

\* C9 (a missing sub-task job is benign): a method candidate that fails
\* because the job of a sub-task has no route in the domain is skipped, and
\* the search goes on.
C9_MissingJobBenign ==
    (fw.last.tried /\ fw.last.err.kind = "ExpansionFailed") =>
        /\ fw.pc # "done"
        /\ fw.result.kind # "Err"

\* The successors that the node being expanded has on the stack: every other
\* node of the stack is no deeper than the node itself.
Successors(f) == {i \in 1..Len(f.stack) : f.stack[i].depth = f.depth + 1}

\* C11 as stated (single successor per node): while a node is expanded, at
\* most one successor of it is on the search stack, however many of its
\* candidates succeed.
C11_SingleSuccessor ==
    fw.pc \in {"op", "intent"} => Cardinality(Successors(fw)) <= 1

\* C11 amended (a successor per successful candidate): every candidate that
\* try_task accepts puts one more node on the search stack, of the next depth
\* and above the nodes already there, and the search goes on; a node with
\* several successful candidates leaves as many successors.
C11_SuccessorPerSuccess ==
    [][(fw.pc = "intent" /\ fw'.last.tried /\ fw'.last.ok) =>
          /\ fw'.pc \in {"op", "intent"}
          /\ Len(fw'.stack) = Len(fw.stack) + 1
          /\ SubSeq(fw'.stack, 1, Len(fw.stack)) = fw.stack
          /\ fw'.stack[Len(fw'.stack)].depth = fw.depth + 1
          /\ fw'.stack[Len(fw'.stack)].plan.dag # fw.cur_plan.dag
          /\ Cardinality(Successors(fw')) = Cardinality(Successors(fw)) + 1]_vars

\* Two candidates of the one operation of a number's distance have both
\* succeeded, and both their nodes are on the stack.
C11_Witness ==
    /\ fw.cur_state.kind = "num"
    /\ fw.pc \in {"op", "intent"}
    /\ fw.last.pushed
    /\ Cardinality(Successors(fw)) = 2

\* The decomposition of a task on a state: the actions reached by expanding
\* it depth-first and left to right, each sub-task with the args of its
\* parent and the path of its job, and the state the actions leave.
RECURSIVE Decompose(_, _, _)
RECURSIVE DecomposeAll(_, _, _, _)
Decompose(dom, task, state) ==
    LET acted(changes) ==
            [tasks |-> <<task>>, state |-> patch(state, changes.patch).doc]
        expanded(tasks) == DecomposeAll(dom, task, tasks.tasks, state)
    IN  IF degree(task.id) = "Atomic" THEN acted(dry_run(task, state))
        ELSE expanded(expand(task, state))

DecomposeAll(dom, method, tasks, state) ==
    LET joined(first, rest) ==
            [tasks |-> first.tasks \o rest.tasks, state |-> rest.state]
        after(first) ==
            joined(first, DecomposeAll(dom, method, Tail(tasks), first.state))
        routed(t, path) == after(Decompose(dom, with_path(t, path.route), state))
        inherited(t) == routed(t, find_path_for_job(dom, t.id, t.args))
    IN  IF tasks = <<>> THEN [tasks |-> <<>>, state |-> state]
        ELSE inherited(with_args(Head(tasks), method.args))

\* The tasks of a sequence of units.
TasksOf(units) == [i \in 1..Len(units) |-> units[i].task]

\* The node on top of the stack holds the plan `dag` extended by the
\* decomposition `d`, newest unit first, and the state the decomposition
\* leaves.
Gains(top, dag, d) ==
    /\ TasksOf(top.plan.dag) = Reverse(d.tasks) \o TasksOf(dag)
    /\ SubSeq(top.plan.dag, Len(d.tasks) + 1, Len(top.plan.dag)) = dag
    /\ top.state = d.state

\* The units of the plan being extended and of the result are actions, and a
\* returned workflow is the plan of the node that reached the target, oldest
\* unit first.
ActionsInOrder ==
    /\ \A i \in 1..Len(fw.cur_plan.dag) :
           degree(fw.cur_plan.dag[i].task.id) = "Atomic"
    /\ \A j \in 1..Len(fw.result.workflow) :
           degree(fw.result.workflow[j].task.id) = "Atomic"
    /\ fw.result.kind = "Ok" => fw.result.workflow = Reverse(fw.cur_plan.dag)

\* C12 (method decomposition order): a method candidate that succeeds adds to
\* the plan exactly the actions of its recursive expansion, contiguous and in
\* expansion order; the returned workflow lists the units in the order in
\* which they were added; and no unit of any plan is a method.
C12_DecompositionOrder ==
    /\ []ActionsInOrder
    /\ [][(/\ fw.pc = "intent"
           /\ fw'.last.pushed
           /\ degree(fw'.last.intent.job) = "Composite") =>
              Gains(fw'.stack[Len(fw'.stack)], fw.cur_plan.dag,
                    Decompose(domain, CandidateOf(fw, fw'.last.intent),
                              fw.cur_state))]_vars

\* The method plus_three, which expands to the method plus_two and an
\* action, has succeeded on a plan that already held units.
C12_Witness ==
    /\ fw.last.pushed
    /\ fw.last.intent.job = "plus_three"
    /\ fw.cur_plan.dag # <<>>
    /\ Len(fw.stack[Len(fw.stack)].plan.dag) = Len(fw.cur_plan.dag) + 3

\* The job calls of the domain that register a job with none(job).
NoneCalls == {i \in 1..Len(regs) : regs[i][2].operation = "None"}

\* The path of a route for a token: the token in place of the hole.
PathOf(route, token) ==
    [i \in 1..Len(route) |-> IF IsHole(route[i]) THEN token ELSE route[i]]

\* find_jobs_at yields no None intent at a path.
YieldsNoNone(matching) ==
    \A i \in 1..Len(matching.intents) : matching.intents[i].operation # "None"

\* C14 (None intents): find_jobs_at never yields a job registered with
\* none(job), so find_workflow never tries it as a candidate; the job stays in
\* the reverse index with its route, and find_path_for_job succeeds for it.
C14_NoneIntents ==
    /\ \A token \in KeySet :
           /\ YieldsNoNone(find_jobs_at(domain, <<token>>))
           /\ YieldsNoNone(find_jobs_at(domain, Root))
    /\ \A i \in 1..Len(fw.intents) : fw.intents[i].operation # "None"
    /\ fw.last.tried => fw.last.intent.operation # "None"
    /\ \A c \in NoneCalls :
           /\ regs[c][2].job \in DOMAIN domain.index
           /\ domain.index[regs[c][2].job] = regs[c][1]
           /\ \A token \in KeySet :
                  find_path_for_job(domain, regs[c][2].job,
                                    <<<<"counter", token>>>>)
                      = [ok |-> TRUE,
                         route |-> route_string(PathOf(regs[c][1], token))]

\* A workflow has been returned that holds plus_one, registered with
\* none(plus_one), as a sub-task of a method.
C14_Witness ==
    /\ fw.result.kind = "Ok"
    /\ \E c \in NoneCalls : regs[c][2].job = "plus_one"
    /\ \E i \in 1..Len(fw.result.workflow) :
           fw.result.workflow[i].task.id = "plus_one"

\* C15 (already satisfied): when the current state has empty distance to the
\* target, the search is either not started or has returned, from the depth-0
\* node and without trying any job, success with the empty workflow.
C15_AlreadySatisfied ==
    is_empty(Distance(system, tgt)) =>
        \/ fw = find_workflow_init(system)
        \/ /\ fw.pc = "done"
           /\ fw.result = [kind |-> "Ok", err |-> NoError, workflow |-> <<>>]
           /\ fw.depth = 0
           /\ fw.cur_plan = EmptyPlan
           /\ fw.stack = <<>>
           /\ ~fw.last.tried

\* find_plan has returned for a state at its target, with the empty domain.
C15_Witness ==
    /\ is_empty(Distance(system, tgt))
    /\ regs = <<>>
    /\ system.kind = "obj"
    /\ fw.pc = "done"

\* The search has nothing left to pop.
StackEmptied(f) == f.pc = "pop" /\ f.stack = <<>>

\* find_workflow has failed with NotFound.
NotFound(f) ==
    /\ f.pc = "done"
    /\ f.result = [kind |-> "Err", err |-> Error("NotFound"), workflow |-> <<>>]

\* C16 (plan not found): when the stack empties, no node having reached the
\* target, find_workflow fails with NotFound, and it fails with NotFound in
\* no other case.
C16_PlanNotFound ==
    /\ [](NotFound(fw) => fw.stack = <<>> /\ ~is_empty(Distance(system, tgt)))
    /\ [][StackEmptied(fw) => NotFound(fw')]_vars
    /\ [][NotFound(fw') => StackEmptied(fw)]_vars

\* NotFound after every candidate of the only node was tried and skipped.
C16_Witness ==
    /\ NotFound(fw)
    /\ fw.depth = 0
    /\ \E i \in 1..Len(regs) : regs[i][2].job = "buggy_plus_one"
    /\ \A i \in 1..Len(regs) : regs[i][2].job # "minus_one"

\* The job calls made so far name a job twice on one route.
SameRouteTwice ==
    \E i, j \in 1..Len(regs) :
        i < j /\ regs[i][1] = regs[j][1] /\ regs[i][2].job = regs[j][2].job

\* The job calls made so far name a job on two routes.
TwoRoutes ==
    \E i, j \in 1..Len(regs) :
        i < j /\ regs[i][1] # regs[j][1] /\ regs[i][2].job = regs[j][2].job

\* The jobs of the intents a route holds.
JobsAt(dom, route) ==
    {dom.router[route][i].job : i \in 1..Len(dom.router[route])}

\* C17 (a job at most once per template): the job calls have panicked when
\* one of them named a job that an earlier call put on the same route,
\* whatever the operations and priorities of the two intents; in a domain that
\* has not panicked every route holds one intent for each of its jobs.
C17_OncePerTemplate ==
    /\ SameRouteTwice => domain.panicked
    /\ ~domain.panicked =>
           \A route \in DOMAIN domain.router :
               Cardinality(JobsAt(domain, route)) = Len(domain.router[route])

\* A job call has panicked on an intent that was already on the route.
C17_Witness ==
    /\ domain.panicked
    /\ Len(regs) = 2
    /\ regs[1] = regs[2]

\* C18 (a job in at most one template): the job calls have panicked when one
\* of them named a job that an earlier call put on another route; in a domain
\* that has not panicked, the index maps every registered job, and nothing
\* else, to the one route whose intents hold it.
C18_OneTemplate ==
    /\ TwoRoutes => domain.panicked
    /\ ~domain.panicked =>
           /\ DOMAIN domain.index = {regs[i][2].job : i \in 1..Len(regs)}
           /\ \A id \in DOMAIN domain.index :
                  \A route \in DOMAIN domain.router :
                      id \in JobsAt(domain, route) <=> domain.index[id] = route

\* A job call has panicked on a job that is on another route, with another
\* operation.
C18_Witness ==
    /\ domain.panicked
    /\ Len(regs) = 2
    /\ regs[1] = <<TCounter, update("plus_one")>>
    /\ regs[2] = <<TRoot, any("plus_one")>>

\* The place of an operation in Create < Update < Delete < Any.
OperationRank(operation) ==
    CASE operation = "Create" -> 1
      [] operation = "Update" -> 2
      [] operation = "Delete" -> 3
      [] operation = "Any" -> 4

\* One intent comes before another: composite before atomic, then the
\* operation, then the lower priority value, then the job id.
ComesBefore(a, b) ==
    IF degree(a.job) # degree(b.job) THEN degree(a.job) = "Composite"
    ELSE IF a.operation # b.operation
    THEN OperationRank(a.operation) < OperationRank(b.operation)
    ELSE IF a.priority # b.priority THEN a.priority < b.priority
    ELSE IndexOf(JobIds, a.job) < IndexOf(JobIds, b.job)

\* The intents registered, with an operation other than None, on the route
\* that matches a path.
RegisteredAt(path) ==
    {regs[k][2] : k \in {i \in 1..Len(regs) :
                            /\ RouteMatches(regs[i][1], path)
                            /\ regs[i][2].operation # "None"}}

\* C19 (intent order): find_jobs_at yields the intents registered on the
\* matched route, each once, composite before atomic, then by operation in the
\* order Create < Update < Delete < Any, then by priority with the lower value
\* first, then by job id; and it yields the same for every order of the job
\* calls.
C19_IntentOrder ==
    (lookup.fn = "find_jobs_at" /\ lookup.result.found) =>
        /\ \A i, j \in 1..Len(lookup.result.intents) :
               i < j => ComesBefore(lookup.result.intents[i],
                                    lookup.result.intents[j])
        /\ SeqToSet(lookup.result.intents) = RegisteredAt(lookup.path)
        /\ \A order \in Orders(regs) :
               find_jobs_at(build(order), lookup.path) = lookup.result

\* find_jobs_at has yielded three intents, the one registered first last and
\* one with a priority before one with a lesser job id.
C19_Witness ==
    /\ lookup.fn = "find_jobs_at"
    /\ lookup.result.found
    /\ lookup.result.intents = <<update("plus_two"),
                                  with_priority(update("plus_one"), 1),
                                  update("minus_one")>>
    /\ regs[1][2] = update("minus_one")

\* The value bound to a name in a list of args.
ArgBound(args, name) == \E i \in 1..Len(args) : args[i][1] = name

ArgValue(args, name) ==
    args[CHOOSE i \in 1..Len(args) : args[i][1] = name][2]

\* The name a segment of a template holds a place for, "" for a segment that
\* is no hole.
HoleOf(seg) ==
    CASE seg \in {"{counter}", "{*counter}"} -> "counter"
      [] seg \in {"{other}", "{*other}"} -> "other"
      [] OTHER -> ""

\* A segment of a template as it should come out: a hole as the value bound
\* to its name, a name in doubled braces as the name in braces, anything else
\* as it is.
Substituted(seg, args) ==
    IF HoleOf(seg) # "" THEN chars(ArgValue(args, HoleOf(seg)))
    ELSE IF seg = "{{counter}}" THEN <<"{", "counter", "}">>
    ELSE IF seg = "{{other}}" THEN <<"{", "other", "}">>
    ELSE chars(seg)

RECURSIVE SubstitutedRoute(_, _)
SubstitutedRoute(route, args) ==
    IF route = <<>> THEN <<>>
    ELSE <<"/">> \o Substituted(Head(route), args)
             \o SubstitutedRoute(Tail(route), args)

\* find_path_for_job was called for a job of the index with every hole of the
\* job's route bound in the args.
Substitutable ==
    /\ lookup.fn = "find_path_for_job"
    /\ lookup.job \in DOMAIN domain.index
    /\ \A i \in 1..Len(domain.index[lookup.job]) :
           HoleOf(domain.index[lookup.job][i]) # ""
               => ArgBound(lookup.args, HoleOf(domain.index[lookup.job][i]))

\* The args bind plain values: without a brace and without the text that
\* find_path_for_job puts in the place of an escaped parameter.
PlainValues(args) ==
    \A i \in 1..Len(args) : args[i][2] \in {"one", "two", "one/two"}

\* C20 (reverse lookup substitution): for a job in the index,
\* find_path_for_job returns the job's route with every {name} and {*name}
\* hole replaced by the value bound to name in the args, and every {{name}}
\* turned into {name}, whether or not name is bound.
C20_Substitution ==
    Substitutable =>
        /\ lookup.result.ok
        /\ lookup.result.route
               = SubstitutedRoute(domain.index[lookup.job], lookup.args)

\* What find_path_for_job does do: the same, when the values are plain.
C20_PlainSubstitution ==
    (Substitutable /\ PlainValues(lookup.args)) =>
        /\ lookup.result.ok
        /\ lookup.result.route
               = SubstitutedRoute(domain.index[lookup.job], lookup.args)

\* A route with a hole, an escaped name and a wildcard has been filled.
C20_Filled ==
    /\ lookup.fn = "find_path_for_job"
    /\ lookup.args = <<<<"other", "one/two">>, <<"counter", "two">>>>
    /\ lookup.result.ok
    /\ lookup.result.route
           = <<"/", "two", "/", "{", "other", "}", "/", "one", "/", "two">>

\* C21 (reverse lookup errors): find_path_for_job returns an error, and no
\* path, when the job is not in the index or when a {name} or {*name} hole of
\* the job's route is not bound in the args; it returns a path only for a job
\* of the index with every hole bound.
C21_LookupErrors ==
    lookup.fn = "find_path_for_job" =>
        /\ lookup.result.ok => Substitutable
        /\ ~lookup.result.ok => lookup.result.route = <<>>

\* An error for a job of the index: one hole of its route is bound, the other
\* is not.
C21_Witness ==
    /\ lookup.fn = "find_path_for_job"
    /\ lookup.job = "plus_one"
    /\ domain.index["plus_one"] = <<"{counter}", "{other}">>
    /\ lookup.args = <<<<"counter", "one">>>>
    /\ ~lookup.result.ok

\* The jobs whose handler attaches an io step.
IoJobs == {"plus_one_async_with_effect", "plus_one_async_with_error"}

\* The task of plus_one, the same handler without an io step, in the context
\* of a task.
WithoutIo(task) == [task EXCEPT !.id = "plus_one"]

\* The task of a job at a path of a state, its target the target document at
\* the path.
TaskAt(id, path) ==
    Task(id, path, <<>>,
         IF resolve(tgt, path).ok THEN resolve(tgt, path).value ELSE Null)

\* C22 (dry-run is pure): on the states of the search, at every path, the
\* dry run of an action with an io step, failing or not, is the dry run of the
\* same action without it; and a candidate with an io step that find_workflow
\* tries is never run: it does not fail with the error of its io step, and
\* adds to the plan the patch of its dry run.
C22_DryRunPure ==
    /\ \A id \in IoJobs : \A path \in {Root} \cup {<<k>> : k \in KeySet} :
           /\ dry_run(TaskAt(id, path), fw.cur_state)
                  = dry_run(WithoutIo(TaskAt(id, path)), fw.cur_state)
           /\ dry_run(TaskAt(id, path), system)
                  = dry_run(WithoutIo(TaskAt(id, path)), system)
    /\ (fw.last.tried /\ fw.last.intent.job \in IoJobs) =>
           /\ fw.last.err # TaskFailure("Runtime")
           /\ fw.last.ok =>
                  fw.last.pending
                      = fw.cur_plan.pending
                          \o dry_run(WithoutIo(CandidateOf(fw, fw.last.intent)),
                                     fw.cur_state).patch

\* find_plan has returned a workflow of two units of an action whose io step
\* fails.
C22_Witness ==
    /\ fw.result.kind = "Ok"
    /\ Len(fw.result.workflow) = 2
    /\ fw.result.workflow[1].task.id = "plus_one_async_with_error"

\* C23 (run is projection then io): run fails with the error of the
\* projection when the projection fails; otherwise, when the io step fails,
\* run fails with the error of the io step and returns no patch; and when the
\* io step returns the value it was given, or there is none, run returns the
\* patch of dry_run on the same state, whether or not another task ran while
\* the io step was suspended. Before the future is awaited there is no result.
C23_RunProjectionThenIo ==
    /\ lookup.fn = "run_call" => lookup.result = Pending
    /\ lookup.fn = "run" =>
            /\ ~Handler_call(lookup.task, system).ok =>
                   /\ ~lookup.result.ok
                   /\ lookup.result.err = Handler_call(lookup.task, system).err
            /\ (Handler_call(lookup.task, system).ok
                    /\ IoStep(lookup.task.id) = "error") =>
                   lookup.result = [ok |-> FALSE, patch |-> <<>>, err |-> "Runtime"]
            /\ IoStep(lookup.task.id) \in {"none", "same"} =>
                   lookup.result = dry_run(lookup.task, system)

\* run has failed on the io step of an action whose dry run on the same state
\* gives a patch, after another task ran while the io step was suspended.
C23_Witness ==
    /\ lookup.fn = "run"
    /\ lookup.during # NoOther
    /\ lookup.task.id = "plus_one_async_with_error"
    /\ lookup.result.err = "Runtime"
    /\ dry_run(lookup.task, system).ok
    /\ dry_run(lookup.task, system).patch # <<>>

\* C24 (panic conversion): a panic of a method's handler does not come out of
\* Method::expand; expand returns an InputError in its place.
C24_PanicConversion ==
    lookup.fn = "expand" =>
        /\ lookup.result.err # "panic"
        /\ Method_call(lookup.task, system).err = "panic" =>
               lookup.result = [ok |-> FALSE, tasks |-> <<>>, err |-> "InputError"]
        /\ Method_call(lookup.task, system).err # "panic" =>
               lookup.result = Method_call(lookup.task, system)

\* expand has returned the InputError of a handler that panicked.
C24_Witness ==
    /\ lookup.fn = "expand"
    /\ lookup.task.id = "plus_two_with_panic"
    /\ Method_call(lookup.task, system).err = "panic"
    /\ lookup.result.err = "InputError"

\* The extractors the specification's table gives as scoped.
ScopedExtractors == {"View", "Pointer", "Target", "Args"}

\* Every extractor of a job is one of the scoped ones.
AllScoped(id) ==
    \A i \in 1..Len(Extractors(id)) : Extractors(id)[i] \in ScopedExtractors

\* C25 (scoping propagation): a task built from a handler is scoped exactly
\* when every extractor of the handler is scoped, and with_target, with_arg
\* and with_path keep the task's id, kind and scoped bit.
C25_Scoping ==
    lookup.fn \in {"with_target", "with_arg", "with_path"} =>
        /\ is_scoped(lookup.task) <=> AllScoped(lookup.task.id)
        /\ is_scoped(lookup.result) <=> AllScoped(lookup.result.id)
        /\ lookup.result.id = lookup.task.id
        /\ lookup.result.kind = lookup.task.kind
        /\ lookup.result.scoped = lookup.task.scoped

\* A builder has changed the context of the task of plus_one_sys, which takes
\* the whole system next to two scoped extractors, and the task is unscoped.
C25_Witness ==
    /\ lookup.fn \in {"with_target", "with_arg", "with_path"}
    /\ lookup.task.id = "plus_one_sys"
    /\ lookup.result # lookup.task
    /\ ~is_scoped(lookup.result)

\* There is a value at the path of the document.
Exists(doc, path) ==
    \/ path = Root
    \/ /\ Len(path) = 1
       /\ \/ doc.kind = "obj" /\ path[1] \in DOMAIN doc.m
          \/ doc.kind = "arr" /\ Index(path[1]) >= 0
                              /\ Index(path[1]) < Len(doc.a)

\* The value at a path that has one.
ValueAt(doc, path) ==
    IF path = Root THEN doc
    ELSE IF doc.kind = "obj" THEN Num(doc.m[path[1]])
    ELSE Num(doc.a[Index(path[1]) + 1])

\* The parent of the path is not there, or is a number or null.
ParentFails(doc, path) ==
    /\ path # Root
    /\ \/ Len(path) = 1 /\ doc.kind \in {"num", "null"}
       \/ Len(path) = 2

\* The parent of the path is a map without the key, or an array that ends
\* before the index.
Missing(doc, path) ==
    /\ Len(path) = 1
    /\ \/ doc.kind = "obj" /\ path[1] \notin DOMAIN doc.m
       \/ doc.kind = "arr" /\ Index(path[1]) >= Len(doc.a)

\* C26 (pointer and view construction), as stated: both fail when the parent
\* of the path does not resolve or is a scalar; where the parent is there and
\* the path is missing the pointer is absent and the view fails; where the
\* path has a value both hold it.
C26_Construction ==
    lookup.fn = "from_system" =>
        /\ ParentFails(system, lookup.path) =>
               ~lookup.pointer.ok /\ ~lookup.view.ok
        /\ Missing(system, lookup.path) =>
               lookup.pointer.ok /\ ~lookup.pointer.present /\ ~lookup.view.ok
        /\ Exists(system, lookup.path) =>
               /\ lookup.pointer.ok /\ lookup.pointer.present
               /\ Num(lookup.pointer.n) = ValueAt(system, lookup.path)
               /\ lookup.view = lookup.pointer

\* C26, amended: where the path has a value, both hold it when it
\* deserializes as the type of the pointer, a number here, and both fail when
\* it does not; the other two cases are as stated.
C26_ConstructionDeserialized ==
    lookup.fn = "from_system" =>
        /\ ParentFails(system, lookup.path) =>
               ~lookup.pointer.ok /\ ~lookup.view.ok
        /\ Missing(system, lookup.path) =>
               lookup.pointer.ok /\ ~lookup.pointer.present /\ ~lookup.view.ok
        /\ (Exists(system, lookup.path)
                /\ ValueAt(system, lookup.path).kind = "num") =>
               /\ lookup.pointer.ok /\ lookup.pointer.present
               /\ Num(lookup.pointer.n) = ValueAt(system, lookup.path)
               /\ lookup.view = lookup.pointer
        /\ (Exists(system, lookup.path)
                /\ ValueAt(system, lookup.path).kind # "num") =>
               ~lookup.pointer.ok /\ ~lookup.view.ok

\* A pointer was built absent at the index one past the end of an array that
\* is not empty, where the view failed.
C26_Witness ==
    /\ lookup.fn = "from_system"
    /\ system.kind = "arr"
    /\ system.a # <<>>
    /\ Len(lookup.path) = 1
    /\ Index(lookup.path[1]) = Len(system.a)
    /\ lookup.pointer.ok
    /\ ~lookup.pointer.present
    /\ ~lookup.view.ok

\* C27 (untouched pointer): a pointer or a view built from a document and
\* turned into a patch against that document, with nothing assigned and
\* nothing unassigned, gives the empty patch, where the path holds a value
\* and where it holds none.
C27_UntouchedPointer ==
    (lookup.fn = "into_result" /\ lookup.op = "none") =>
        lookup.result = [ok |-> TRUE, patch |-> <<>>, err |-> "none"]

\* An absent pointer into an array was turned into a patch untouched.
C27_Witness ==
    /\ lookup.fn = "into_result"
    /\ lookup.op = "none"
    /\ lookup.extractor = "Pointer"
    /\ system.kind = "arr"
    /\ Missing(system, lookup.path)
    /\ lookup.result.ok

\* The operations that move the elements after index i of an array one
\* place down, from index j on: a replace of each index up to the last but
\* one by the value of its successor, of every such index or of those only
\* whose value differs from its successor's, and a remove of the last index.
RECURSIVE ShiftDown(_, _, _)
ShiftDown(arr, j, every) ==
    IF j >= Len(arr) - 1 THEN <<PatchOp("remove", <<Indexes[Len(arr)]>>, Null)>>
    ELSE (IF every \/ arr[j + 1] # arr[j + 2]
          THEN <<PatchOp("replace", <<Indexes[j + 1]>>, Num(arr[j + 2]))>>
          ELSE <<>>) \o ShiftDown(arr, j + 1, every)

\* A pointer at an index an array has was unassigned and turned into a patch.
Unassigned ==
    /\ lookup.fn = "into_result"
    /\ lookup.op = "unassign"
    /\ system.kind = "arr"
    /\ Len(lookup.path) = 1
    /\ Index(lookup.path[1]) >= 0
    /\ Index(lookup.path[1]) < Len(system.a)

\* C28 (array mid-deletion), as stated: unassigning the pointer at index i of
\* an array of length n gives a replace of each index from i to n-2 by its
\* successor's value and then a remove of index n-1; at the last index it
\* gives the remove alone.
C28_MidDeletion ==
    Unassigned =>
        lookup.result = [ok |-> TRUE,
                         patch |-> ShiftDown(system.a, Index(lookup.path[1]), TRUE),
                         err |-> "none"]

\* C28, amended: the replace of an index is there when its value differs from
\* its successor's, and is left out when the two are equal.
C28_MidDeletionOfChanges ==
    Unassigned =>
        lookup.result = [ok |-> TRUE,
                         patch |-> ShiftDown(system.a, Index(lookup.path[1]), FALSE),
                         err |-> "none"]

\* The pointer at index 1 of [1, 2, 3] was unassigned: replace /1 by 3, then
\* remove /2.
C28_Witness ==
    /\ Unassigned
    /\ system.a = <<1, 2, 3>>
    /\ lookup.path = <<"1">>
    /\ lookup.result.patch = <<PatchOp("replace", <<"1">>, Num(3)),
                               PatchOp("remove", <<"2">>, Null)>>

\* The document with the value of a pointer at its path: the value written
\* there when the pointer holds one, the path taken out when it holds none.
Written(doc, path, op, n) ==
    IF op = "unassign" THEN delete(doc, path)
    ELSE IF op = "assign" THEN assign(doc, path, Num(n)).doc
    ELSE doc

\* C29 (diff round-trip): the diff of the state towards any document, applied
\* to the state, succeeds and gives that document; and the patch of a
\* pointer, applied to the system the pointer was built from, gives the
\* system with the pointer's value written, or removed, at its path.
C29_DiffRoundTrip ==
    /\ lookup.fn = "diff" =>
           lookup.result = [ok |-> TRUE, doc |-> lookup.after]
    /\ (lookup.fn = "into_result" /\ lookup.result.ok) =>
           patch(system, lookup.result.patch) =
               [ok |-> TRUE,
                doc |-> Written(system, lookup.path, lookup.op, lookup.n)]

\* An array was turned into a shorter one that differs in what it keeps, by
\* a patch of a replace and two removes.
C29_Witness ==
    /\ lookup.fn = "diff"
    /\ system.kind = "arr"
    /\ lookup.after.kind = "arr"
    /\ Len(system.a) = Len(lookup.after.a) + 2
    /\ Len(lookup.changes) = 3
    /\ lookup.result.doc = lookup.after

\* try_task with the scratch state of a method moved on, after each
\* sub-task, by the patch that sub-task added to the pending changes, applied
\* once: the state a sub-task is tried on is the state at the entry of the
\* method with the patches of the sub-tasks before it, each once and in order.
RECURSIVE try_task_once(_, _, _, _, _, _)
RECURSIVE try_subtasks_once(_, _, _, _, _, _, _)
try_task_once(dom, task, cur_state, cur_plan, stack_len, calls) ==
    LET tested(work_id, changes) ==
            IF ~changes.ok THEN Failed(TaskFailure(changes.err))
            ELSE IF no_progress(stack_len, changes.patch)
            THEN Failed(Error("ConditionFailed"))
            ELSE Succeeded([dag |-> with_head(cur_plan.dag,
                                              WorkUnit(work_id.id, task)),
                            pending |-> cur_plan.pending \o changes.patch])
        action(work_id) ==
            IF ~work_id.ok THEN Failed(Error("Unexpected"))
            ELSE IF dag_some(cur_plan.dag, work_id.id)
            THEN Failed(Error("LoopDetected"))
            ELSE tested(work_id, dry_run(task, cur_state))
        expanded(res) ==
            IF ~res.ok THEN res
            ELSE IF no_progress(stack_len, res.plan.pending)
            THEN Failed(Error("ConditionFailed"))
            ELSE res
        method(tasks) ==
            IF ~tasks.ok THEN Failed(TaskFailure(tasks.err))
            ELSE expanded(try_subtasks_once(dom, task, tasks.tasks, cur_state,
                              cur_plan, stack_len,
                              calls \cup {<<task, cur_state, cur_plan>>}))
    IN  IF degree(task.id) = "Atomic" THEN action(new_id(task, cur_state))
        ELSE IF <<task, cur_state, cur_plan>> \in calls
        THEN Failed(Error("StackOverflow"))
        ELSE method(expand(task, cur_state))

try_subtasks_once(dom, method, tasks, cur_state, cur_plan, stack_len, calls) ==
    LET patched(res, new_state) ==
            IF ~new_state.ok THEN Failed(PatchFailure)
            ELSE try_subtasks_once(dom, method, Tail(tasks), new_state.doc,
                                   res.plan, stack_len, calls)
        tried(res) ==
            IF ~res.ok THEN res
            ELSE patched(res, patch(cur_state,
                                    SubSeq(res.plan.pending,
                                           Len(cur_plan.pending) + 1,
                                           Len(res.plan.pending))))
        routed(t, path) ==
            IF ~path.ok THEN Failed(Error("ExpansionFailed"))
            ELSE tried(try_task_once(dom, with_path(t, path.route), cur_state,
                                     cur_plan, stack_len + 1, calls))
        inherited(t) == routed(t, find_path_for_job(dom, t.id, t.args))
    IN  IF tasks = <<>> THEN Succeeded(cur_plan)
        ELSE inherited(with_args(Head(tasks), method.args))

\* What a try of a candidate left in the record of the search is what a
\* result of try_task gives.
Recorded(last, res) ==
    /\ last.ok = res.ok
    /\ last.err = res.err
    /\ last.pending = res.plan.pending

\* C30 (method scratch state): a method candidate is tried with each of its
\* sub-tasks, those of the methods among them included, on the state at the
\* entry of the method with the patches of the sub-tasks before it applied
\* once each and in order, whatever the operations of the patches.
C30_ScratchState ==
    [][(/\ fw.pc = "intent"
        /\ fw'.last.tried
        /\ degree(fw'.last.intent.job) = "Composite") =>
           Recorded(fw'.last,
                    try_task_once(domain, CandidateOf(fw, fw'.last.intent),
                                  fw.cur_state, fw.cur_plan, 0, {}))]_vars

\* C31 (patches always apply): the pending changes of a successful candidate
\* apply to the state of the node, so that find_workflow does not panic, and
\* no candidate fails because the scratch state of a method could not be
\* patched after a sub-task.
C31_PatchesApply ==
    /\ fw.result.kind # "Panic"
    /\ fw.last.tried => fw.last.err # PatchFailure

\* Two nodes of the stack that one node left for the same path of its
\* distance: they are of the same depth, and the units their candidates put
\* first on their plans are at the same path. Of two such nodes the one lower
\* on the stack is of the intent that comes first in intent order.
SamePathSiblings(lower, upper) ==
    /\ lower.depth = upper.depth
    /\ lower.plan.dag # <<>>
    /\ upper.plan.dag # <<>>
    /\ lower.plan.dag[1].task.path = upper.plan.dag[1].task.path

\* C32 (search priority): of the nodes that the intents of one path have left
\* on the stack, the search goes on first from the node of the intent that
\* comes first in intent order: a node is not popped while a node of an
\* earlier intent of the same path is on the stack.
C32_FirstIntentFirst ==
    [][(fw.pc = "pop" /\ fw.stack # <<>>) =>
          ~\E i \in 1..(Len(fw.stack) - 1) :
               SamePathSiblings(fw.stack[i], fw.stack[Len(fw.stack)])]_vars

\* C33 (depth check first): a node of depth 256 or more that is popped ends
\* the search with MaxDepthReached, whatever its state and whatever is left
\* on the stack; a workflow is returned from a node of depth 255 at most; and
\* the depth of a node counts the candidates applied to reach it, each of
\* which added one unit or more to the plan.
C33_DepthCheckFirst ==
    /\ [](/\ fw.result.kind = "Ok" => fw.depth < MaxDepth
          /\ \A i \in 1..Len(fw.stack) :
                 fw.stack[i].depth <= Len(fw.stack[i].plan.dag))
    /\ [][(/\ fw.pc = "pop"
           /\ fw.stack # <<>>
           /\ fw.stack[Len(fw.stack)].depth >= MaxDepth) =>
              /\ fw'.pc = "done"
              /\ fw'.result = [kind |-> "Err", err |-> Error("MaxDepthReached"),
                               workflow |-> <<>>]]_vars

\* The search has ended with MaxDepthReached at a node of depth 256 whose
\* state is the target, while other nodes were left on the stack.
C33_Witness ==
    /\ fw.pc = "done"
    /\ fw.result.err = Error("MaxDepthReached")
    /\ fw.depth = MaxDepth
    /\ Distance(fw.cur_state, tgt) = <<>>
    /\ fw.stack # <<>>

\* A node of the search: nothing is pending on its plan, the units of its
\* plan are actions, its state is the initial state with the dry-run patch of
\* each unit applied in the order in which the units were added, and its
\* depth is 0 exactly when its plan is empty.
SearchNode(node) ==
    /\ node.plan.pending = <<>>
    /\ \A i \in 1..Len(node.plan.dag) :
           degree(node.plan.dag[i].task.id) = "Atomic"
    /\ apply_workflow(system, Reverse(node.plan.dag))
           = [ok |-> TRUE, doc |-> node.state]
    /\ node.depth = 0 <=> node.plan.dag = <<>>

C35_Isolation ==
    [][/\ system' = system
       /\ fw.pc \in {"op", "intent"} =>
              /\ fw'.cur_state = fw.cur_state
              /\ fw'.cur_plan = fw.cur_plan
              /\ fw'.depth = fw.depth
              /\ Len(fw'.stack) >= Len(fw.stack)
              /\ SubSeq(fw'.stack, 1, Len(fw.stack)) = fw.stack]_vars

\* A candidate has succeeded on a node that already carries a plan, and
\* another candidate of the same node is still to be tried.
C35_Witness ==
    /\ fw.pc = "intent"
    /\ fw.last.pushed
    /\ fw.cur_plan.dag # <<>>
    /\ fw.stack[Len(fw.stack)].state # fw.cur_state

\* The first failure among the sub-tasks of a method, each one tried as the
\* method tries it, on the state and the plan that the sub-tasks before it
\* left: the error, and the number of sub-tasks that succeeded before it.
\* No failure is NoError.
RECURSIVE FirstFailure(_, _, _, _, _, _, _)
FirstFailure(dom, method, tasks, state, plan, calls, done) ==
    LET no_failure == [err |-> NoError, done |-> done]
        patched(res, new_state) ==
            IF ~new_state.ok THEN no_failure
            ELSE FirstFailure(dom, method, Tail(tasks), new_state.doc,
                              res.plan, calls, done + 1)
        tried(res) ==
            IF ~res.ok THEN [err |-> res.err, done |-> done]
            ELSE patched(res, patch(state, res.plan.pending))
        routed(t, path) ==
            IF ~path.ok THEN [err |-> Error("ExpansionFailed"), done |-> done]
            ELSE tried(try_task(dom, with_path(t, path.route), state, plan,
                                1, calls))
        inherited(t) == routed(t, find_path_for_job(dom, t.id, t.args))
    IN  IF tasks = <<>> THEN no_failure
        ELSE inherited(with_args(Head(tasks), method.args))

\* The first failure among the sub-tasks of a top-level method candidate.
FailureOf(f, method) ==
    LET first(tasks) ==
            IF ~tasks.ok THEN [err |-> NoError, done |-> 0]
            ELSE FirstFailure(domain, method, tasks.tasks, f.cur_state,
                              f.cur_plan,
                              {<<method, f.cur_state, f.cur_plan>>}, 0)
    IN  first(expand(method, f.cur_state))

\* The try of the candidate failed with the error `failure.err` and left
\* nothing: no pending patch, no new node, and the node being expanded as it
\* was.
AllOrNothing(failure) ==
    failure.err # NoError =>
        /\ ~fw'.last.ok
        /\ fw'.last.err = failure.err
        /\ fw'.last.pending = <<>>
        /\ ~fw'.last.pushed
        /\ fw'.stack = fw.stack
        /\ fw'.cur_plan = fw.cur_plan
        /\ fw'.cur_state = fw.cur_state
        /\ fw'.result.workflow = <<>>

\* C36 (methods are all-or-nothing): when a sub-task of a method candidate
\* fails, whatever sub-tasks succeeded before it, the candidate fails with
\* the error of that sub-task and nothing of the method reaches the plan of
\* the node or the stack.
C36_AllOrNothing ==
    [][(/\ fw.pc = "intent"
        /\ fw'.last.tried
        /\ degree(fw'.last.intent.job) = "Composite") =>
           AllOrNothing(FailureOf(fw, CandidateOf(fw, fw'.last.intent)))]_vars

\* A method candidate has failed with LoopDetected, the error of a sub-task
\* that came after a sub-task that had succeeded.
C36_Witness ==
    /\ fw.last.tried
    /\ degree(fw.last.intent.job) = "Composite"
    /\ ~fw.last.ok
    /\ fw.last.err = Error("LoopDetected")
    /\ FailureOf(fw, CandidateOf(fw, fw.last.intent)).done >= 1

\* The calls of try_task that a method makes for its sub-tasks, and those
\* that the methods among them make for theirs, in the order of the calls
\* returning: the task, the state and the plan it was tried on, the result,
\* and whether it was the last sub-task of its method.
RECURSIVE SubCalls(_, _, _, _, _, _)
SubCalls(dom, method, tasks, state, plan, calls) ==
    LET this(t, res) ==
            <<[task |-> t, state |-> state, plan |-> plan, res |-> res,
               last |-> Tail(tasks) = <<>>]>>
        below(t, sub) ==
            IF degree(t.id) = "Atomic" \/ ~sub.ok \/ <<t, state, plan>> \in calls
            THEN <<>>
            ELSE SubCalls(dom, t, sub.tasks, state, plan,
                          calls \cup {<<t, state, plan>>})
        patched(res, new_state) ==
            IF ~new_state.ok THEN <<>>
            ELSE SubCalls(dom, method, Tail(tasks), new_state.doc, res.plan,
                          calls)
        tried(t, res) ==
            below(t, IF degree(t.id) = "Atomic" THEN [ok |-> FALSE]
                     ELSE expand(t, state))
            \o this(t, res)
            \o IF ~res.ok THEN <<>>
               ELSE patched(res, patch(state, res.plan.pending))
        sub_task(t) == tried(t, try_task(dom, t, state, plan, 1, calls))
        routed(t, path) ==
            IF ~path.ok THEN <<>> ELSE sub_task(with_path(t, path.route))
        inherited(t) == routed(t, find_path_for_job(dom, t.id, t.args))
    IN  IF tasks = <<>> THEN <<>>
        ELSE inherited(with_args(Head(tasks), method.args))

\* The calls made for the sub-tasks of a top-level method candidate.
SubCallsOf(f, method) ==
    LET made(tasks) ==
            IF ~tasks.ok THEN <<>>
            ELSE SubCalls(domain, method, tasks.tasks, f.cur_state, f.cur_plan,
                          {<<method, f.cur_state, f.cur_plan>>})
    IN  made(expand(method, f.cur_state))

\* The call is of an action whose unit is not in the plan and whose dry run
\* succeeds with an empty patch.
NestedNoop(made) ==
    LET fresh(work_id, changes) ==
            /\ work_id.ok
            /\ ~dag_some(made.plan.dag, work_id.id)
            /\ changes.ok
            /\ changes.patch = <<>>
    IN  /\ degree(made.task.id) = "Atomic"
        /\ fresh(new_id(made.task, made.state), dry_run(made.task, made.state))

\* The call at `i` succeeded with its unit at the head of the plan and the
\* pending patch as it was, and, unless it was the last of its method, the
\* next call was made on that plan and on the same state.
Kept(made, i) ==
    /\ made[i].res.ok
    /\ made[i].res.plan =
           [dag |-> with_head(made[i].plan.dag,
                              WorkUnit(new_id(made[i].task, made[i].state).id,
                                       made[i].task)),
            pending |-> made[i].plan.pending]
    /\ ~made[i].last =>
           /\ i < Len(made)
           /\ made[i + 1].plan = made[i].res.plan
           /\ made[i + 1].state = made[i].state

AllKept(made) ==
    \A i \in 1..Len(made) : NestedNoop(made[i]) => Kept(made, i)

\* C37 (nested no-op actions are kept): an action tried as a sub-task of a
\* method whose dry run changes nothing succeeds, its unit is added to the
\* plan, the pending patch stays as it was and the method goes on with its
\* next sub-task.
C37_NestedNoops ==
    [][(/\ fw.pc = "intent"
        /\ fw'.last.tried
        /\ degree(fw'.last.intent.job) = "Composite") =>
           AllKept(SubCallsOf(fw, CandidateOf(fw, fw'.last.intent)))]_vars

\* A workflow has been returned that holds a unit whose action left the
\* state as it found it when the units are applied in order.
C37_Witness ==
    /\ fw.result.kind = "Ok"
    /\ \E i \in 1..Len(fw.result.workflow) :
           /\ apply_workflow(system, SubSeq(fw.result.workflow, 1, i)).ok
           /\ apply_workflow(system, SubSeq(fw.result.workflow, 1, i))
                  = apply_workflow(system, SubSeq(fw.result.workflow, 1, i - 1))

\* The path `q` is the path `p` or is below it.
Under(p, q) == Len(p) <= Len(q) /\ SubSeq(q, 1, Len(p)) = p

\* A pointer or a view was turned into a patch.
Consumed == lookup.fn = "into_result" /\ lookup.result.ok

\* The operations of the patch are at the path of the pointer or below it.
OpsUnder ==
    \A i \in 1..Len(lookup.result.patch) :
        Under(lookup.path, lookup.result.patch[i].path)

\* The patch leaves what is at a path as it was.
Same(q) ==
    resolve(patch(system, lookup.result.patch).doc, q) = resolve(system, q)

\* The patch applies, and what is neither at the path of the pointer, nor
\* below it, nor above it, is after the patch as it was before.
RestUnchanged ==
    /\ patch(system, lookup.result.patch).ok
    /\ \A q \in ViewPaths :
           (~Under(q, lookup.path) /\ ~Under(lookup.path, q)) => Same(q)

\* C38 (scoped effect frame), as stated: the patch made from a pointer or a
\* view holds only operations at its path or below, and leaves every other
\* part of the document as it was.
C38_ScopedFrame == Consumed => OpsUnder /\ RestUnchanged

\* The pointer that was unassigned was at an index of an array that is not
\* its last.
Interior == Unassigned /\ Index(lookup.path[1]) < Len(system.a) - 1

\* The operations of the patch are at the index of the pointer or at a later
\* index of the array, one of them at a later index, and the elements before
\* the index are as they were.
LaterIndexes ==
    /\ \A i \in 1..Len(lookup.result.patch) :
           /\ Len(lookup.result.patch[i].path) = 1
           /\ Index(lookup.result.patch[i].path[1]) >= Index(lookup.path[1])
    /\ \E i \in 1..Len(lookup.result.patch) :
           Index(lookup.result.patch[i].path[1]) > Index(lookup.path[1])
    /\ patch(system, lookup.result.patch).ok
    /\ \A j \in 1..Len(system.a) :
           j - 1 < Index(lookup.path[1]) => Same(<<Indexes[j]>>)
    /\ ~Same(<<Indexes[Len(system.a)]>>)

\* C38, amended: the frame holds for every pointer and view but the pointer
\* unassigned at an index of an array that is not the last; there the patch
\* has operations at later indexes of the array, the elements after the
\* index move down by one, and only the elements before it stay.
C38_ScopedFrameButInterior ==
    /\ (Consumed /\ ~Interior) => OpsUnder /\ RestUnchanged
    /\ Interior => Consumed /\ LaterIndexes

\* A pointer at one key of a map of two keys was given another value: the
\* patch is one operation at that key.
C38_Witness ==
    /\ Consumed
    /\ lookup.op = "assign"
    /\ system.kind = "obj"
    /\ \A k \in KeySet : resolve(system, <<k>>).ok
    /\ Len(lookup.path) = 1
    /\ Len(lookup.result.patch) = 1
    /\ lookup.result.patch[1].path = lookup.path

\* C39 (path round trip), as stated: for a path that find_jobs_at matches
\* against the route of a job, find_path_for_job gives, for that job and the
\* args of the match, the path that was matched.
C39_RoundTrip ==
    lookup.fn = "find_path_for_job" =>
        /\ lookup.result.ok
        /\ lookup.result.route = route_string(lookup.path)

\* A task that changes nothing on a state: an action whose dry run gives the
\* empty patch, or a method whose sub-tasks, each with the args of the method
\* and at the path of its job, all change nothing on that state; a method
\* that expands to no sub-task is one. `calls` holds the methods that are
\* being expanded.
RECURSIVE Idle(_, _, _, _)
Idle(dom, task, state, calls) ==
    LET empty_patch(changes) == changes.ok /\ changes.patch = <<>>
        routed(t, path) ==
            path.ok /\ Idle(dom, with_path(t, path.route), state,
                            calls \cup {task})
        inherited(t) == routed(t, find_path_for_job(dom, t.id, t.args))
        all_idle(tasks) ==
            /\ tasks.ok
            /\ \A i \in 1..Len(tasks.tasks) :
                   inherited(with_args(tasks.tasks[i], task.args))
    IN  IF degree(task.id) = "Atomic" THEN empty_patch(dry_run(task, state))
        ELSE task \notin calls /\ all_idle(expand(task, state))

\* The candidate of the last step changes nothing on the state of the node.
IdleCandidate ==
    Idle(domain, CandidateOf(fw, fw.last.intent), fw.cur_state, {})

\* C10 (no-progress candidates are rejected), as it is stated: a candidate
\* tried by find_workflow that changes nothing, be it an action with an empty
\* dry-run patch or a method whose sub-tasks leave the pending patch empty,
\* fails with ConditionFailed; try_task never succeeds there with an empty
\* pending patch, and a node is pushed only for a candidate whose pending
\* patch is not empty.
C10_NoProgressRejected ==
    fw.last.tried =>
        /\ IdleCandidate => (~fw.last.ok /\ fw.last.err = Error("ConditionFailed"))
        /\ fw.last.ok => fw.last.pending # <<>>
        /\ fw.last.pushed => (fw.last.ok /\ fw.last.pending # <<>>)

\* The error with which a candidate that changes nothing fails. An action
\* whose path does not resolve in the state fails on its id; one whose id is
\* in the plan fails with LoopDetected; any other fails with
\* ConditionFailed. A method fails with the error of its first sub-task that
\* fails, and with ConditionFailed when none does.
IdleError(task) ==
    LET of_action(work_id) ==
            IF ~work_id.ok THEN Error("Unexpected")
            ELSE IF dag_some(fw.cur_plan.dag, work_id.id)
            THEN Error("LoopDetected")
            ELSE Error("ConditionFailed")
        of_method(failure) ==
            IF failure.err # NoError THEN failure.err
            ELSE Error("ConditionFailed")
    IN  IF degree(task.id) = "Atomic" THEN of_action(new_id(task, fw.cur_state))
        ELSE of_method(FailureOf(fw, task))

\* C10, amended: a candidate tried by find_workflow that changes nothing
\* fails, and no node is pushed for it: with ConditionFailed when it is an
\* action whose path resolves and whose id is not in the plan, or a method
\* all of whose sub-tasks succeed; with LoopDetected, or with the error of
\* the id, when the check of the id of an action comes in first; with the
\* error of the sub-task when a sub-task of a method fails. try_task never
\* succeeds there with an empty pending patch, and a node is pushed only for
\* a candidate whose pending patch is not empty.
C10_NoProgressFails ==
    fw.last.tried =>
        /\ IdleCandidate =>
               /\ ~fw.last.ok
               /\ ~fw.last.pushed
               /\ fw.last.err = IdleError(CandidateOf(fw, fw.last.intent))
        /\ fw.last.ok => fw.last.pending # <<>>
        /\ fw.last.pushed => (fw.last.ok /\ fw.last.pending # <<>>)

\* A method that expands to three sub-tasks, each of which succeeds and
\* changes nothing, has been tried and has failed with ConditionFailed.
C10_Witness ==
    /\ fw.last.tried
    /\ degree(fw.last.intent.job) = "Composite"
    /\ Len(expand(CandidateOf(fw, fw.last.intent), fw.cur_state).tasks) = 3
    /\ IdleCandidate
    /\ FailureOf(fw, CandidateOf(fw, fw.last.intent)).err = NoError
    /\ fw.last.err = Error("ConditionFailed")

====
